---- MODULE Spec2Model ----
(***************************************************************************)
(* A model of disposator: the aggregate resource tracker (Disposable /     *)
(* AsyncDisposable), its using/from operations, its per-pass iterator and  *)
(* the for-of statement that drives it, the streaming iterator of          *)
(* usingFrom with its source, and a tracker tracked as a resource of       *)
(* another.                                                                *)
(*                                                                         *)
(* The library code runs to completion except where it calls user code (a  *)
(* cleanup, a loop body, a source iterator, a mapFn) or, in the async      *)
(* variant, awaits.  The model keeps an explicit call stack of frames; a   *)
(* frame is a library function suspended at a call, or user code running.  *)
(* `ret` is the completion handed from a callee to its caller.             *)
(***************************************************************************)
EXTENDS Integers, Sequences, FiniteSets, TLC

\* Number of values ever offered to the tracker (using / from / constructor).
MaxRes == 2

VARIABLES
  variant,        \* "sync" (disposable.js) or "async" (async-disposable.js)
  state,          \* Disposable.#state
  resourceStack,  \* Disposable.#resourceStack
  usingBound,     \* the constructor made `using` an own, bound property
  created,        \* how the tracker came to be: "none","new","from","iterator","forof"
  exposed,        \* user code holds a reference to the tracker
  res,            \* getIterator: res ("tracker" or "undefined")
  used,           \* getIterator: used
  itValue,        \* getIterator: value ("tracker" or "resource")
  stream,         \* wrapIterator: closed, pendingRecord, hasReturn, hasThrow, and
                  \* the history of what the adapter did with its source
  callStack,      \* frames, innermost last
  parked,         \* async variant: call stacks suspended at an await
  ret,            \* completion of the call that just finished (with an empty
                  \* call stack: of the script's last call)
  log,            \* history: the cleanups invoked, in order, each with its result
  added,          \* history: the records pushed on #resourceStack, in order, with
                  \* the operation that pushed each and whether it was given an
                  \* onDispose callback
  nval,           \* number of values offered so far
  disposal,       \* history: the disposal that drained the stack
  raised,         \* history: the errors raised into the library (by a cleanup,
                  \* recognition, the source, mapFn, the body) during the
                  \* script's current call and not yet handled by user code
  unhandled,      \* history: rejections of promises nobody holds
  lastUsing,      \* history: the arguments and receiver of the last call of using
  pass,           \* history: the calls made on the per-pass iterator
  inner           \* a second tracker, tracked as a resource of the first

vars == <<variant, state, resourceStack, usingBound, created, exposed, res, used,
          itValue, stream, callStack, parked, ret, log, added, nval,
          disposal, raised, unhandled, lastUsing, pass, inner>>

trackerVars == <<state, resourceStack, usingBound>>
iterVars == <<res, used, itValue, pass>>
histVars == <<log, added, disposal, raised>>

-----------------------------------------------------------------------------
\* Thrown values.  `origin` and `id` give the identity of the thrown value,
\* `shape` what kind of JavaScript value it is: "obj" an extensible object
\* without a cause property, "prim" a truthy primitive (or a frozen object),
\* "falsy" a falsy primitive (undefined, null, 0, "", false).

Err(origin, id, shape) ==
  [origin |-> origin, id |-> id, shape |-> shape, cause |-> <<>>, errors |-> <<>>]

TypeError(msg, id) == Err(msg, id, "obj")

AggregateError(errs) ==
  [origin |-> "AggregateError", id |-> 0, shape |-> "obj", cause |-> <<>>,
   errors |-> errs]

\* The identity of a thrown value, whatever cause it was given since.
Ident(e) == <<e.origin, e.id, e.shape>>

\* The thrown values reachable from e: e, its cause, its errors, and theirs.
RECURSIVE Reach(_)
Reach(e) ==
  {Ident(e)} \cup UNION {Reach(e.cause[i]) : i \in 1..Len(e.cause)}
             \cup UNION {Reach(e.errors[i]) : i \in 1..Len(e.errors)}

CleanupShapes == {"obj", "prim"}
BodyShapes == {"obj", "prim"}
SourceShapes == {"obj", "falsy"}

\* `"cause" in error` throws for a primitive and is true for an object that
\* already has a cause; in both cases `result` stays undefined.
mergeCauseArgsSwapped(error, cause) ==
  IF cause.shape = "obj" /\ cause.cause = <<>>
  THEN [cause EXCEPT !.cause = <<error>>]
  ELSE AggregateError(<<error, cause>>)

mergeCause(error, cause) ==
  IF error.shape = "obj" /\ error.cause = <<>>
  THEN [error EXCEPT !.cause = <<cause>>]
  ELSE AggregateError(<<cause, error>>)

-----------------------------------------------------------------------------
\* Completions.

\* `op` names the operation a completion handed to the script came from, and is
\* "await" for the settlement of an awaited promise; `val` is the value returned
\* (<<>>: undefined).
None == [t |-> "none", done |-> FALSE, err |-> <<>>, op |-> "", val |-> <<>>]
Normal == [t |-> "normal", done |-> FALSE, err |-> <<>>, op |-> "", val |-> <<>>]
IterResult(done) ==
  [t |-> "normal", done |-> done, err |-> <<>>, op |-> "", val |-> <<>>]
Throw(e) == [t |-> "throw", done |-> FALSE, err |-> <<e>>, op |-> "", val |-> <<>>]

-----------------------------------------------------------------------------
\* Values offered as resources.  `dispose`: value[symbolDispose] is a function;
\* `asyncTag`: typeof value[symbolAsyncDispose] ("undefined", "function" or
\* "other"); `callable`: typeof value === "function".  `role` tells the value
\* itself from the onDispose callback or the mapFn result made for it.

Value(id, role, dispose, asyncTag, callable) ==
  [id |-> id, role |-> role, dispose |-> dispose, asyncTag |-> asyncTag,
   callable |-> callable]

Undefined == Value(0, "undefined", FALSE, "undefined", FALSE)

ValueKinds == {"disposable", "asyncDisposable", "function", "invalid"}

\* The kinds of value by what typeof says of value[symbolDispose], of
\* value[symbolAsyncDispose] and of the value itself.
SyncTagged ==
  {"disposable", "disposableFunction", "asyncSyncDisposable",
   "asyncSyncFunction", "badAsyncDisposable", "badAsyncDisposableFunction"}

AsyncTagged ==
  {"asyncDisposable", "asyncSyncDisposable", "asyncFunction",
   "asyncSyncFunction"}

BadAsyncTagged ==
  {"badAsync", "badAsyncDisposable", "badAsyncFunction",
   "badAsyncDisposableFunction"}

Callables ==
  {"function", "disposableFunction", "asyncFunction", "asyncSyncFunction",
   "badAsyncFunction", "badAsyncDisposableFunction"}

TagKinds == SyncTagged \cup AsyncTagged \cup BadAsyncTagged \cup Callables
              \cup {"invalid"}

MkValue(id, role, kind) ==
  Value(id, role, kind \in SyncTagged,
        IF kind \in AsyncTagged THEN "function"
        ELSE IF kind \in BadAsyncTagged THEN "other" ELSE "undefined",
        kind \in Callables)

\* A record names its receiver and its callable by the role of the object (the
\* id of that object is the record's rid).
Record(rid, resourceValue, hint, of, via) ==
  [rid |-> rid, resourceValue |-> resourceValue.role, hint |-> hint,
   disposeMethod |-> [of |-> of.role, via |-> via]]

NoRecord == Record(0, Undefined, "none", Undefined, "none")

\* disposable.js getRecordFromValue
getRecordFromValueSync(value, resource) ==
  IF value.dispose
  THEN Record(resource.id, value, "sync", value, "symbolDispose")
  ELSE IF value.callable
  THEN Record(resource.id, resource, "sync", value, "call")
  ELSE NoRecord

\* (not the library's) an async tag that is not a function is passed over
getRecordFromValueAsyncLenient(value, resource) ==
  IF value.asyncTag = "function"
  THEN Record(resource.id, value, "async", value, "symbolAsyncDispose")
  ELSE IF value.dispose
  THEN Record(resource.id, value, "sync", value, "symbolDispose")
  ELSE IF value.callable
  THEN Record(resource.id, resource, "async", value, "call")
  ELSE NoRecord

\* async-disposable.js getRecordFromValue
getRecordFromValueAsync(value, resource) ==
  IF value.asyncTag # "undefined"
  THEN IF value.asyncTag = "function"
       THEN Record(resource.id, value, "async", value, "symbolAsyncDispose")
       ELSE NoRecord
  ELSE IF value.dispose
  THEN Record(resource.id, value, "sync", value, "symbolDispose")
  ELSE IF value.callable
  THEN Record(resource.id, resource, "async", value, "call")
  ELSE NoRecord

\* (not the library's) a callback record whose receiver is the callback itself
getRecordFromValueOwnReceiver(value, resource) ==
  IF ~value.callable THEN NoRecord
  ELSE Record(resource.id, value, IF variant = "sync" THEN "sync" ELSE "async",
              value, "call")

\* (not the library's) every value is taken for a cleanup callback
getRecordFromValueAny(value, resource) ==
  Record(resource.id, resource, IF variant = "sync" THEN "sync" ELSE "async",
         value, "call")

getRecordFromValue(value, resource) ==
  IF variant = "sync" THEN getRecordFromValueSync(value, resource)
  ELSE getRecordFromValueAsync(value, resource)

-----------------------------------------------------------------------------
\* Frames.

\* A frame is a library function suspended at a call (pc says where), or user
\* code running (a cleanup; the body of a for-of statement).  `awaits` tells
\* whether the frame awaits the promise of an async callee (a user cleanup, the
\* sync using and the constructor's #from only call).

Frame(op, pc) ==
  [op |-> op, pc |-> pc, errors |-> <<>>, multipleResources |-> FALSE,
   stackLength |-> 0, err |-> <<>>, record |-> NoRecord, nth |-> 0,
   source |-> "none", items |-> 0, awaits |-> TRUE, completion |-> "none",
   detached |-> FALSE, nextResult |-> None]

Top == callStack[Len(callStack)]
Rest == SubSeq(callStack, 1, Len(callStack) - 1)
TopIs(op, pc) == callStack # <<>> /\ Top.op = op /\ Top.pc = pc

Reverse(s) == [i \in 1..Len(s) |-> s[Len(s) + 1 - i]]

ctlVars == <<callStack, ret, parked, unhandled>>

\* The methods of the iterator wrapIterator returns.
WrappedOps == {"wrapped.next", "wrapped.return", "wrapped.throw"}

\* (not the library's) the dispose loop does not await what disposeRecord returns
AwaitersNoDispose == WrappedOps

\* [symbolDispose] of the tracker, and of a tracker that is one of its resources
DisposeOps == {"dispose", "inner.dispose"}

\* The callers of disposeRecord that await what it returns.
Awaiters == DisposeOps \cup WrappedOps

\* The functions declared `async` in async-disposable.js.
AsyncOps == DisposeOps \cup {"next", "return", "throw", "from", "forof"}

\* The innermost frame of cs that does not await its callee (0: none).
TopSync(cs) ==
  LET S == {i \in 1..Len(cs) : ~cs[i].awaits}
  IN IF S = {} THEN 0 ELSE CHOOSE i \in S : \A j \in S : j <= i

\* The frames of cs above its innermost non-awaiting frame: they await, one
\* another, the callee that is suspending.  The promise of the outermost of them
\* went to a caller that does not await it.
Chain(cs) ==
  LET b == TopSync(cs)
      c == SubSeq(cs, b + 1, Len(cs))
  IN IF b > 0 /\ c # <<>> THEN [c EXCEPT ![1].detached = TRUE] ELSE c

\* The callee of cs's top frame suspends at an await (wait: the record whose
\* cleanup promise is awaited) or has completed and its awaiting caller is to be
\* resumed from the job queue (wait = 0).
Suspend(cs, wait, result) ==
  LET b == TopSync(cs)
  IN /\ parked' = parked \cup {[frames |-> Chain(cs), wait |-> wait, ret |-> result]}
     /\ callStack' = SubSeq(cs, 1, b)
     /\ ret' = IF b > 0 THEN Normal ELSE None
     /\ UNCHANGED <<unhandled>>

\* Frame f, whose callers are cs, completes with `result`.
Return(f, cs, result) ==
  IF cs = <<>>
  THEN /\ callStack' = <<>>
       /\ parked' = parked
       /\ IF f.detached
          THEN /\ ret' = None
               /\ unhandled' = IF result.t = "throw"
                                THEN unhandled \cup {result.err[1]} ELSE unhandled
          ELSE /\ ret' = [result EXCEPT !.op = f.op]
               /\ unhandled' = unhandled
  ELSE IF variant = "async" /\ f.op \in AsyncOps
  THEN IF cs[Len(cs)].awaits
       THEN Suspend(cs, 0, result)
       ELSE /\ callStack' = cs
            /\ ret' = Normal
            /\ unhandled' = IF result.t = "throw"
                             THEN unhandled \cup {result.err[1]} ELSE unhandled
            /\ UNCHANGED <<parked>>
  ELSE /\ callStack' = cs
       /\ ret' = result
       /\ UNCHANGED <<parked, unhandled>>

\* A call that pushes a frame and leaves the callee running.
Push(cs) ==
  /\ callStack' = cs
  /\ ret' = None
  /\ UNCHANGED <<parked, unhandled>>

\* The script is in control.  It awaits every promise it is handed, so it makes
\* no call while a call of its own is suspended; promises nobody holds (of calls
\* made by a cleanup) may still be pending.
ScriptTurn ==
  /\ callStack = <<>>
  /\ \A c \in parked : c.frames[1].detached

\* User code is in control: the top-level script, a cleanup, a for-of body.
UserCode ==
  \/ ScriptTurn
  \/ callStack # <<>> /\ Top.op = "cleanup"
  \/ callStack # <<>> /\ Top.op = "forof" /\ Top.pc = "body"

\* history: what is left of `raised` when user code goes on.  The script starts
\* a new call; a cleanup or a body that goes on after a call of its raised has
\* handled that error.
Kept ==
  IF callStack = <<>> THEN {}
  ELSE IF ret.t = "throw" THEN raised \ Reach(ret.err[1])
  ELSE raised

-----------------------------------------------------------------------------
\* disposeRecord, and the cleanup it invokes.

\* history: the result of an invocation: None while the cleanup runs or the
\* promise it returned is awaited, "dropped" for a promise nobody awaits
Invocation(record) == [record |-> record, result |-> None]
Dropped == [None EXCEPT !.t = "dropped"]
LogIndex(rid) ==
  CHOOSE i \in 1..Len(log) :
    /\ log[i].record.rid = rid
    /\ \A j \in (i + 1)..Len(log) : log[j].record.rid # rid
SetResult(rid, result) == [log EXCEPT ![LogIndex(rid)].result = result]

\* disposeRecord(record): invokes record.disposeMethod with record.resourceValue
\* as receiver; the cleanup (user code) starts running.
disposeRecord(cs, record) ==
  /\ log' = Append(log, Invocation(record))
  /\ Push(Append(cs, [Frame("cleanup", "run") EXCEPT !.record = record,
                                                     !.awaits = FALSE]))

\* The cleanup returns (undefined, or a value disposeRecord voids).
CleanupReturn ==
  /\ TopIs("cleanup", "run")
  /\ Return(Top, Rest, Normal)
  /\ log' = SetResult(Top.record.rid, Normal)
  /\ raised' = Kept
  /\ UNCHANGED <<variant, inner, stream, lastUsing,
                 trackerVars, created, exposed, iterVars, nval,
                 added, disposal>>

CleanupThrow(shape) ==
  /\ TopIs("cleanup", "run")
  /\ LET e == Err("cleanup", Top.record.rid, shape)
     IN /\ Return(Top, Rest, Throw(e))
        /\ log' = SetResult(Top.record.rid, Throw(e))
        /\ raised' = Kept \cup {Ident(e)}
  /\ UNCHANGED <<variant, inner, stream, lastUsing,
                 trackerVars, created, exposed, iterVars, nval,
                 added, disposal>>

\* The cleanup lets the error of a call it made (a using on the disposed
\* tracker) propagate.
CleanupRethrow ==
  /\ TopIs("cleanup", "run")
  /\ ret.t = "throw"
  /\ Return(Top, Rest, ret)
  /\ log' = SetResult(Top.record.rid, ret)
  /\ UNCHANGED <<variant, inner, stream, lastUsing,
                 trackerVars, created, exposed, iterVars, nval,
                 added, disposal, raised>>

\* async variant: the cleanup of an "async" record returns a promise, which the
\* dispose loop awaits (`if (res !== undefined) await res`), as the streaming
\* iterator does (`await dispose()`, `await tryOrClose(dispose, true)`).
CleanupReturnPromise ==
  /\ variant = "async"
  /\ TopIs("cleanup", "run")
  /\ Top.record.hint = "async"
  /\ Rest[Len(Rest)].op \in Awaiters
  /\ Suspend(Rest, Top.record.rid, None)
  /\ raised' = Kept
  /\ UNCHANGED <<variant, inner, stream, lastUsing,
                 trackerVars, created, exposed, iterVars, nval,
                 log, added, disposal>>

\* async variant: the cleanup of an "async" record returns a promise to using
\* (on a disposed tracker), which drops it.  `outcome` is how the promise will
\* settle: a rejection is one nobody handles.
CleanupDropPromise(outcome) ==
  /\ variant = "async"
  /\ TopIs("cleanup", "run")
  /\ Top.record.hint = "async"
  /\ Rest[Len(Rest)].op \notin Awaiters
  /\ callStack' = Rest
  /\ ret' = Normal
  /\ UNCHANGED parked
  /\ IF outcome = "fulfilled"
     THEN /\ log' = SetResult(Top.record.rid, Dropped)
          /\ raised' = Kept
          /\ UNCHANGED unhandled
     ELSE LET e == Err("cleanup", Top.record.rid, outcome)
          IN /\ log' = SetResult(Top.record.rid, [Dropped EXCEPT !.err = <<e>>])
             /\ raised' = Kept \cup {Ident(e)}
             /\ unhandled' = unhandled \cup {e}
  /\ UNCHANGED <<variant, inner, stream, lastUsing,
                 trackerVars, created, exposed, iterVars, nval,
                 added, disposal>>

\* The promise a cleanup returned settles; the disposal awaiting it resumes.
SettleCleanup(c, shape) ==
  /\ callStack = <<>>
  /\ c \in parked
  /\ c.wait # 0
  /\ callStack' = c.frames
  /\ parked' = parked \ {c}
  /\ LET result == IF shape = "fulfilled" THEN Normal
                   ELSE Throw(Err("cleanup", c.wait, shape))
     IN /\ ret' = [result EXCEPT !.op = "await"]
        /\ log' = SetResult(c.wait, result)
        /\ raised' = IF shape = "fulfilled" THEN raised
                     ELSE raised \cup {Ident(result.err[1])}
  /\ UNCHANGED <<variant, inner, stream, lastUsing,
                 trackerVars, created, exposed, iterVars, nval,
                 added, disposal, unhandled>>

\* An awaiting caller whose callee has completed is resumed from the job queue.
Resume(c) ==
  /\ callStack = <<>>
  /\ c \in parked
  /\ c.wait = 0
  /\ callStack' = c.frames
  /\ parked' = parked \ {c}
  /\ ret' = c.ret
  /\ UNCHANGED <<variant, inner, stream, lastUsing,
                 trackerVars, created, exposed, iterVars, nval, histVars,
                 unhandled>>

-----------------------------------------------------------------------------
\* Disposable[symbolDispose]

\* this.#state = "disposed"
StateOnDisposeUnchanged == state
StateOnDispose == "disposed"

\* const multipleResources = this.#resourceStack.length > 1
multipleResourcesOff(stack) == FALSE
multipleResourcesAlways(stack) == TRUE
multipleResources(stack) == Len(stack) > 1

\* while (this.#resourceStack.length)
LoopStopsOnError(stack, errors) == stack # <<>> /\ errors = <<>>
LoopContinues(stack, errors) == stack # <<>>

\* this.#resourceStack.pop()
PopFirst(stack) == [record |-> stack[1], stack |-> SubSeq(stack, 2, Len(stack))]
Pop(stack) ==
  [record |-> stack[Len(stack)], stack |-> SubSeq(stack, 1, Len(stack) - 1)]

Count(n) == IF n >= 2 THEN 2 ELSE n

\* history: the first call of [symbolDispose] (1) or a later one (2); `early`
\* of the disposal: a later call, not made by a cleanup, returned while the
\* first had not finished
Nth == IF disposal.started THEN 2 ELSE 1

\* The records a tracker given to using holds.
MaxInner == 2

\* No tracker has been given to using.
NoInner == [rid |-> 0, state |-> "none", resourceStack |-> <<>>, added |-> <<>>]

\* The record is the one of the tracker given to using: its disposeMethod is
\* that tracker's [symbolDispose].
IsInner(record) == inner.rid # 0 /\ record.rid = inner.rid

\* disposeRecord(record) for that record: a call of the inner tracker's
\* [symbolDispose] by the top frame of cs.
InnerCallDispose(cs, record) ==
  IF inner.state = "disposed"
  THEN /\ log' = Append(log, [Invocation(record) EXCEPT !.result = Normal])
       /\ Return(Frame("inner.dispose", "return"), cs, Normal)
       /\ UNCHANGED inner
  ELSE /\ log' = Append(log, Invocation(record))
       /\ inner' = [inner EXCEPT !.state = StateOnDispose]
       /\ Push(Append(cs, [Frame("inner.dispose", "loop") EXCEPT
                              !.multipleResources =
                                 multipleResources(inner.resourceStack)]))

\* history: no cleanup is among the callers cs
ByScript(cs) == \A i \in 1..Len(cs) : cs[i].op # "cleanup"

\* A call of [symbolDispose] by the top frame of cs (by the script, cs = <<>>).
CallDispose(cs) ==
  /\ IF state = "disposed"
     THEN /\ Return(Frame("dispose", "return"), cs, Normal)
          /\ disposal' = [disposal EXCEPT !.later = "returned",
                                          !.early = @ \/ (~disposal.finished /\ ByScript(cs))]
          /\ UNCHANGED <<state>>
     ELSE /\ state' = StateOnDispose
          /\ disposal' = IF disposal.started
                         THEN [disposal EXCEPT !.later = "drained"]
                         ELSE [disposal EXCEPT !.started = TRUE,
                                               !.n = Len(resourceStack)]
          /\ Push(Append(cs, [Frame("dispose", "loop") EXCEPT
                                !.multipleResources = multipleResources(resourceStack),
                                !.nth = Nth]))

\* while (this.#resourceStack.length) { pop; try { disposeRecord(record) } ... }
\* and, once the stack is empty, the throw of what was collected.
DisposeLoop ==
  /\ TopIs("dispose", "loop")
  /\ IF LoopContinues(resourceStack, Top.errors)
     THEN /\ resourceStack' = Pop(resourceStack).stack
          /\ IF IsInner(Pop(resourceStack).record)
             THEN InnerCallDispose(Append(Rest, [Top EXCEPT !.pc = "called"]),
                                   Pop(resourceStack).record)
             ELSE /\ disposeRecord(Append(Rest, [Top EXCEPT !.pc = "called"]),
                                   Pop(resourceStack).record)
                  /\ UNCHANGED inner
          /\ UNCHANGED <<disposal>>
     ELSE LET result ==
                IF Top.errors # <<>>
                THEN IF Top.multipleResources
                     THEN Throw(AggregateError(Top.errors))
                     ELSE Throw(Top.errors[Len(Top.errors)])
                ELSE Normal
          IN /\ Return(Top, Rest, result)
             /\ disposal' = IF Top.nth = 1
                            THEN [disposal EXCEPT !.finished = TRUE, !.result = result]
                            ELSE disposal
             /\ UNCHANGED <<resourceStack, log, inner>>
  /\ UNCHANGED <<variant, stream, lastUsing,
                 state, usingBound, created, exposed, iterVars, nval,
                 added, raised>>

\* The drain loop of the tracker that is a resource of the first.
InnerDisposeLoop ==
  /\ TopIs("inner.dispose", "loop")
  /\ IF LoopContinues(inner.resourceStack, Top.errors)
     THEN /\ inner' = [inner EXCEPT !.resourceStack = Pop(@).stack]
          /\ disposeRecord(Append(Rest, [Top EXCEPT !.pc = "called"]),
                           Pop(inner.resourceStack).record)
     ELSE LET result ==
                IF Top.errors # <<>>
                THEN IF Top.multipleResources
                     THEN Throw(AggregateError(Top.errors))
                     ELSE Throw(Top.errors[Len(Top.errors)])
                ELSE Normal
          IN /\ Return(Top, Rest, result)
             /\ log' = SetResult(inner.rid, result)
             /\ UNCHANGED inner
  /\ UNCHANGED <<variant, stream, lastUsing,
                 trackerVars, created, exposed, iterVars, nval,
                 added, disposal, raised>>

\* catch (err) { errors.push(err) }, or the cleanup returned
DisposeCatch ==
  /\ callStack # <<>>
  /\ Top.op \in DisposeOps
  /\ Top.pc = "called"
  /\ ret.t # "none"
  /\ callStack' = Append(Rest, [Top EXCEPT
         !.pc = "loop",
         !.errors = IF ret.t = "throw" THEN Append(@, ret.err[1]) ELSE @])
  /\ ret' = None
  /\ UNCHANGED <<variant, inner, stream, lastUsing,
                 trackerVars, created, exposed, iterVars, nval, histVars,
                 parked, unhandled>>

\* A direct call of tracker[symbolDispose]() by user code.
Dispose ==
  /\ UserCode
  /\ exposed
  /\ CallDispose(callStack)
  /\ raised' = Kept
  /\ UNCHANGED <<variant, inner, stream, lastUsing,
                 resourceStack, usingBound, created, exposed, iterVars,
                 nval, log, added>>

-----------------------------------------------------------------------------
\* Disposable.using

UsingThis == {"tracker", "undefined"}

\* the constructor's Object.defineProperty(this, "using", this.using.bind(this))
BindUsingOmitted == FALSE
BindUsing == TRUE

\* the receiver `using` runs with
Receiver(thisArg) == IF usingBound THEN "tracker" ELSE thisArg

\* const isDisposed = this.#state === "disposed"
IsDisposedNever(s) == FALSE
IsDisposed(s) == s = "disposed"

\* return value
ReturnsNothing(value) == Normal
Returns(value) == [Normal EXCEPT !.val = <<value>>]

\* history: a call of using with these arguments by this caller ("script",
\* "cleanup" or "forof")
UsingCall(n, thisArg, kind, withOnDispose, caller) ==
  [n |-> n, this |-> thisArg, kind |-> kind, onDispose |-> withOnDispose,
   caller |-> caller]

\* using(value, onDispose) called by user code with receiver thisArg
Using(thisArg, kind, withOnDispose) ==
  /\ UserCode
  /\ exposed
  /\ nval < MaxRes
  /\ nval' = nval + 1
  /\ lastUsing' = UsingCall(nval + 1, thisArg, kind, withOnDispose,
                            IF callStack = <<>> THEN "script" ELSE Top.op)
  /\ LET value == MkValue(nval + 1, "value", kind)
         onDispose == Value(nval + 1, "onDispose", FALSE, "undefined", TRUE)
         isDisposed == IsDisposed(state)
         record == IF withOnDispose THEN getRecordFromValue(onDispose, value)
                   ELSE getRecordFromValue(value, value)
         f == Frame("using", "return")
     IN IF Receiver(thisArg) # "tracker"
        THEN /\ Return(f, callStack, Throw(TypeError("NoReceiver", 0)))
             /\ raised' = Kept
             /\ UNCHANGED <<resourceStack, log, added, disposal>>
        ELSE IF record = NoRecord
        THEN LET e == TypeError("Invalid disposable", value.id)
             IN /\ Return(f, callStack, Throw(e))
                /\ raised' = Kept \cup {Ident(e)}
                /\ UNCHANGED <<resourceStack, log, added, disposal>>
        ELSE IF ~isDisposed
        THEN /\ resourceStack' = Append(resourceStack, record)
             /\ added' = Append(added, [rid |-> record.rid,
                                        via |-> IF thisArg = "tracker" THEN "using"
                                                ELSE "detached",
                                        onDispose |-> withOnDispose])
             /\ Return(f, callStack, Returns(value))
             /\ raised' = Kept
             /\ UNCHANGED <<log, disposal>>
        ELSE /\ raised' = Kept
             /\ disposeRecord(
                  Append(callStack,
                         [Frame("using", "rollback") EXCEPT
                            !.err = <<TypeError("AlreadyDisposed", value.id)>>,
                            !.awaits = FALSE]),
                  record)
             /\ UNCHANGED <<resourceStack, added, disposal>>
  /\ UNCHANGED <<variant, inner, stream, state, usingBound, created, exposed, iterVars>>

\* The earlier variant of the tracker (src/unnamed/part_003, second half of
\* async-disposable.js): using performs no disposed check,
\* `const stack = this.#resourceStack; addDisposable(..., stack); return value`.
\* history: `during` tells what the disposal was doing when the record was
\* pushed ("pending": not started, "draining", "drained": finished).
UsingEarlier(thisArg, kind, withOnDispose) ==
  /\ UserCode
  /\ exposed
  /\ nval < MaxRes
  /\ nval' = nval + 1
  /\ lastUsing' = UsingCall(nval + 1, thisArg, kind, withOnDispose,
                            IF callStack = <<>> THEN "script" ELSE Top.op)
  /\ LET value == MkValue(nval + 1, "value", kind)
         onDispose == Value(nval + 1, "onDispose", FALSE, "undefined", TRUE)
         record == IF withOnDispose THEN getRecordFromValue(onDispose, value)
                   ELSE getRecordFromValue(value, value)
         f == Frame("using", "return")
     IN IF Receiver(thisArg) # "tracker"
        THEN /\ Return(f, callStack, Throw(TypeError("NoReceiver", 0)))
             /\ raised' = Kept
             /\ UNCHANGED <<resourceStack, added>>
        ELSE IF record = NoRecord
        THEN LET e == TypeError("Invalid disposable", value.id)
             IN /\ Return(f, callStack, Throw(e))
                /\ raised' = Kept \cup {Ident(e)}
                /\ UNCHANGED <<resourceStack, added>>
        ELSE /\ resourceStack' = Append(resourceStack, record)
             /\ added' = Append(added,
                  [rid |-> record.rid, via |-> "using", onDispose |-> withOnDispose,
                   during |-> IF disposal.finished THEN "drained"
                              ELSE IF disposal.started THEN "draining"
                              ELSE "pending"])
             /\ Return(f, callStack, Returns(value))
             /\ raised' = Kept
  /\ UNCHANGED <<variant, inner, stream, state, usingBound, created, exposed,
                 iterVars, log, disposal>>

\* The earlier async [symbolAsyncDispose]: `await disposeMethod.call(
\* resourceValue)` for a record of hint "async" suspends the disposal also when
\* the cleanup returned no promise.
DisposeAwaitEarlier ==
  /\ variant = "async"
  /\ TopIs("dispose", "called")
  /\ ret.t = "normal"
  /\ ret.op # "await"
  /\ log # <<>>
  /\ log[Len(log)].record.hint = "async"
  /\ Suspend(callStack, 0, ret)
  /\ UNCHANGED <<variant, inner, stream, lastUsing,
                 trackerVars, created, exposed, iterVars, nval, histVars>>

\* The kinds of value a tracker given to using was made from.
InnerKinds ==
  IF variant = "sync" THEN {"disposable"} ELSE {"disposable", "function"}

\* tracker.using(Disposable.from([r1 .. rk])), by the script on a pending
\* tracker: from makes a tracker of the k records (every ri is recognised), and
\* using recognises that tracker by its [symbolDispose] / [symbolAsyncDispose].
UsingTracker(k, kind) ==
  /\ ScriptTurn
  /\ exposed
  /\ created = "new"
  /\ ~IsDisposed(state)
  /\ inner = NoInner
  /\ nval < MaxRes
  /\ nval' = nval + 1
  /\ LET tracker == IF variant = "sync" THEN "disposable" ELSE "asyncDisposable"
         value == MkValue(nval + 1, "value", tracker)
         record == getRecordFromValue(value, value)
         held == [i \in 1..k |->
                    getRecordFromValue(MkValue(MaxRes + i, "value", kind),
                                       MkValue(MaxRes + i, "value", kind))]
     IN /\ inner' = [rid |-> value.id, state |-> "pending",
                     resourceStack |-> held,
                     added |-> [i \in 1..k |-> held[i].rid]]
        /\ lastUsing' = UsingCall(nval + 1, "tracker", tracker, FALSE, "script")
        /\ resourceStack' = Append(resourceStack, record)
        /\ added' = Append(added, [rid |-> record.rid, via |-> "using",
                                   onDispose |-> FALSE])
        /\ Return(Frame("using", "return"), callStack, Returns(value))
        /\ raised' = Kept
  /\ UNCHANGED <<variant, stream, state, usingBound, created, exposed, iterVars,
                 log, disposal>>

\* try { disposeRecord(stack.pop()) } catch (disposeError) { err = mergeCause(..) }
\* throw err
UsingRollback ==
  /\ TopIs("using", "rollback")
  /\ ret.t # "none"
  /\ LET err == IF ret.t = "throw" THEN mergeCause(ret.err[1], Top.err[1])
                ELSE Top.err[1]
     IN Return(Top, Rest, Throw(err))
  /\ UNCHANGED <<variant, inner, stream, lastUsing,
                 trackerVars, created, exposed, iterVars, nval, histVars>>

-----------------------------------------------------------------------------
\* The constructor, Disposable.#from and Disposable.from

IsFrom(pc) == callStack # <<>> /\ Top.op \in {"new", "from"} /\ Top.pc = pc

\* JavaScript truthiness of `iterationError` (<<>>: nothing was caught)
Truthy(err) == err # <<>> /\ err[1].shape # "falsy"

\* The tracker a constructor call makes.
NewTracker ==
  /\ state' = "pending"
  /\ resourceStack' = <<>>
  /\ usingBound' = BindUsing

\* new Disposable(): no arguments, #from is not called
NewEmpty ==
  /\ callStack = <<>>
  /\ created = "none"
  /\ created' = "new"
  /\ NewTracker
  /\ exposed' = TRUE
  /\ Return(Frame("new", "return"), <<>>, Normal)
  /\ UNCHANGED <<variant, inner, stream, lastUsing, iterVars, nval, histVars>>

\* new Disposable(...args) with args.length > 0: this.#from(args); the async
\* constructor passes syncDone, and #from then awaits nothing.
\* (not the library's) #from never waits for the rollback / always waits for it
AwaitsDisposeNever(syncDone) == FALSE
AwaitsDisposeAlways(syncDone) == TRUE

\* if (!syncDone) await disposeResult: the constructor passes a syncDone
\* callback to #from, from does not
AwaitsDispose(syncDone) == ~syncDone

NewArgs ==
  /\ callStack = <<>>
  /\ created = "none"
  /\ created' = "new"
  /\ NewTracker
  /\ Push(<<[Frame("new", "iterate") EXCEPT !.source = "args",
                                           !.awaits = AwaitsDispose(TRUE)]>>)
  /\ UNCHANGED <<variant, inner, stream, lastUsing, exposed, iterVars, nval, histVars>>

MapFns == {"default", "custom"}

\* Disposable.from(disposables, mapFn): a new tracker, then res.#from(...)
From(mapFn) ==
  /\ callStack = <<>>
  /\ created = "none"
  /\ created' = "from"
  /\ NewTracker
  /\ Push(<<[Frame("from", "iterate") EXCEPT
               !.source = IF mapFn = "default" THEN "iterable" ELSE "mapped",
               !.awaits = AwaitsDispose(FALSE)]>>)
  /\ UNCHANGED <<variant, inner, stream, lastUsing, exposed, iterVars, nval, histVars>>

\* One pass of `for (const disposable of syncIterable)`: the source yields a
\* value, mapFn returns a resource for it, addDisposable recognises it or hands
\* the TypeError to onError.
FromItem(kind) ==
  /\ IsFrom("iterate")
  /\ nval < MaxRes
  /\ nval' = nval + 1
  /\ LET disposable == IF Top.source = "mapped"
                       THEN MkValue(nval + 1, "value", "invalid")
                       ELSE MkValue(nval + 1, "value", kind)
         mapped == IF Top.source = "mapped"
                   THEN MkValue(nval + 1, "mapped", kind)
                   ELSE disposable
         record == getRecordFromValue(mapped, disposable)
         e == TypeError("Invalid disposable", nval + 1)
     IN IF record = NoRecord
        THEN /\ callStack' = Append(Rest, [Top EXCEPT !.errors = Append(@, e),
                                                      !.items = Count(@ + 1)])
             /\ raised' = raised \cup {Ident(e)}
             /\ UNCHANGED <<resourceStack, added>>
        ELSE /\ callStack' = Append(Rest, [Top EXCEPT !.items = Count(@ + 1)])
             /\ resourceStack' = Append(resourceStack, record)
             /\ added' = Append(added, [rid |-> record.rid,
                                        via |-> IF Top.op = "new" THEN "constructor"
                                                ELSE "from",
                                        onDispose |-> FALSE])
             /\ UNCHANGED raised
  /\ UNCHANGED <<variant, inner, stream, lastUsing,
                 state, usingBound, created, exposed, iterVars, ret, parked,
                 unhandled, log, disposal>>

\* After the loop: if (iterationError || errors.length) the rollback starts with
\* res[symbolDispose](); otherwise #from returns and the tracker is handed out.
FromAfterLoop(f) ==
  IF Truthy(f.err) \/ f.errors # <<>>
  THEN /\ CallDispose(Append(Rest, [f EXCEPT !.pc = "rollback",
                                             !.stackLength = Len(resourceStack)]))
       /\ UNCHANGED <<exposed>>
  ELSE /\ Return(f, Rest, Normal)
       /\ exposed' = TRUE
       /\ UNCHANGED <<state, disposal>>

\* The source reports done.
FromSourceDone ==
  /\ IsFrom("iterate")
  /\ Top.source = "args" => Top.items >= 1
  /\ FromAfterLoop(Top)
  /\ UNCHANGED <<variant, inner, stream, lastUsing,
                 resourceStack, usingBound, created, iterVars, nval,
                 log, added, raised>>

\* The source's next raises: catch (err) { iterationError = err }
FromSourceThrows(shape) ==
  /\ IsFrom("iterate")
  /\ Top.source # "args"
  /\ LET e == Err("source", 0, shape)
     IN /\ FromAfterLoop([Top EXCEPT !.err = <<e>>])
        /\ raised' = raised \cup {Ident(e)}
  /\ UNCHANGED <<variant, inner, stream, lastUsing,
                 resourceStack, usingBound, created, iterVars, nval,
                 log, added>>

\* mapFn raises for the item the source just yielded.
FromMapThrows(shape) ==
  /\ IsFrom("iterate")
  /\ Top.source = "mapped"
  /\ nval < MaxRes
  /\ nval' = nval + 1
  /\ LET e == Err("mapFn", nval + 1, shape)
     IN /\ FromAfterLoop([Top EXCEPT !.err = <<e>>])
        /\ raised' = raised \cup {Ident(e)}
  /\ UNCHANGED <<variant, inner, stream, lastUsing,
                 resourceStack, usingBound, created, iterVars,
                 log, added>>

\* const multipleResources = stack.length (a number, used as a condition)
multipleResourcesFromFixed(stackLength) == stackLength > 1
multipleResourcesFrom(stackLength) == stackLength # 0

\* err.errors: undefined unless err is an AggregateError
HasErrors(err) == err.origin = "AggregateError"

\* catch (err) { errors.push(...disposeErrors) } and the error #from throws.
\* Spreading undefined raises a TypeError out of the catch block.
FromError(f, completion) ==
  LET err == completion.err[1]
      spreadFails == completion.t = "throw" /\ multipleResourcesFrom(f.stackLength)
                     /\ ~HasErrors(err)
      disposeErrors == IF completion.t # "throw" THEN <<>>
                       ELSE IF multipleResourcesFrom(f.stackLength) THEN err.errors
                       ELSE <<err>>
      errors == f.errors \o disposeErrors
  IN IF spreadFails THEN TypeError("NotIterable", 0)
     ELSE IF errors = <<>> THEN f.err[1]
     ELSE IF Truthy(f.err) THEN mergeCause(AggregateError(errors), f.err[1])
     ELSE AggregateError(errors)

FromRollback ==
  /\ IsFrom("rollback")
  /\ ret.t # "none"
  /\ Return(Top, Rest, Throw(FromError(Top, ret)))
  /\ UNCHANGED <<variant, inner, stream, lastUsing,
                 trackerVars, created, exposed, iterVars, nval, histVars>>

-----------------------------------------------------------------------------
\* getIterator: the per-pass iterator of Disposable[Symbol.iterator]() and of
\* Disposable.using(value, onDispose)

\* static [Symbol.iterator](): a new tracker and getIterator(disposable, disposable)
\* history: the iterator's calls so far.  `phase` is "not-yielded" until the
\* first call, "yielded" after a first call that was next(), "closed" after any
\* other call; `op` is the latest call and `before` the phase it was made in.
\* `n` counts the calls.
PassCall(op) ==
  [phase |-> IF pass.phase = "not-yielded" /\ op = "next" THEN "yielded"
             ELSE "closed",
   op |-> op, before |-> pass.phase, n |-> pass.n + 1]

NoPass ==
  [phase |-> "not-yielded", op |-> "none", before |-> "not-yielded", n |-> 0]

\* The calls the script makes on one iterator.
MaxPass == 4

NewIterator(how) ==
  /\ created' = how
  /\ NewTracker
  /\ res' = "tracker"
  /\ used' = FALSE
  /\ itValue' = "tracker"
  /\ pass' = NoPass

IterEntry ==
  /\ callStack = <<>>
  /\ created = "none"
  /\ NewIterator("iterator")
  /\ Return(Frame("Symbol.iterator", "return"), <<>>, Normal)
  /\ UNCHANGED <<variant, inner, stream, lastUsing, exposed, nval, histVars>>

\* static using(value, onDispose): a new tracker, disposable.using(value,
\* onDispose) on it, and getIterator(value, disposable)
StaticUsing(kind, withOnDispose) ==
  /\ callStack = <<>>
  /\ created = "none"
  /\ nval < MaxRes
  /\ nval' = nval + 1
  /\ state' = "pending"
  /\ usingBound' = BindUsing
  /\ LET value == MkValue(nval + 1, "value", kind)
         onDispose == Value(nval + 1, "onDispose", FALSE, "undefined", TRUE)
         record == IF withOnDispose THEN getRecordFromValue(onDispose, value)
                   ELSE getRecordFromValue(value, value)
         e == TypeError("Invalid disposable", value.id)
         f == Frame("Disposable.using", "return")
     IN IF record = NoRecord
        THEN /\ created' = "failed"
             /\ resourceStack' = <<>>
             /\ Return(f, <<>>, Throw(e))
             /\ raised' = {Ident(e)}
             /\ UNCHANGED <<iterVars, added>>
        ELSE /\ created' = "iterator"
             /\ resourceStack' = <<record>>
             /\ added' = <<[rid |-> record.rid, via |-> "Disposable.using",
                            onDispose |-> withOnDispose]>>
             /\ res' = "tracker"
             /\ used' = FALSE
             /\ itValue' = "resource"
             /\ pass' = NoPass
             /\ Return(f, <<>>, Normal)
             /\ UNCHANGED raised
  /\ UNCHANGED <<variant, inner, stream, lastUsing, exposed, log, disposal>>

\* if (res): the iterator still holds the tracker
HoldsTrackerNever(r) == FALSE
HoldsTracker(r) == r = "tracker"

\* (not the library's) next() does not look at `used`
YieldsWhileHeld(u, r) == HoldsTracker(r)

\* if (!used && res)
Yields(u, r) == ~u /\ HoldsTracker(r)

\* next(), called by the top frame of cs
CallNext(cs) ==
  /\ pass' = PassCall("next")
  /\ IF Yields(used, res)
     THEN /\ used' = TRUE
          /\ Return(Frame("next", "return"), cs, IterResult(FALSE))
          /\ UNCHANGED <<res, state, disposal>>
     ELSE IF HoldsTracker(res)
     THEN /\ CallDispose(Append(cs, Frame("next", "disposing")))
          /\ UNCHANGED <<res, used>>
     ELSE /\ Return(Frame("next", "return"), cs, IterResult(TRUE))
          /\ UNCHANGED <<res, used, state, disposal>>

\* return(), called by the top frame of cs
CallReturn(cs) ==
  /\ pass' = PassCall("return")
  /\ used' = TRUE
  /\ IF HoldsTracker(res)
     THEN /\ CallDispose(Append(cs, Frame("return", "disposing")))
          /\ UNCHANGED res
     ELSE /\ Return(Frame("return", "return"), cs, IterResult(TRUE))
          /\ UNCHANGED <<res, state, disposal>>

\* throw(err), called by the top frame of cs
CallThrow(cs, err) ==
  /\ pass' = PassCall("throw")
  /\ used' = TRUE
  /\ IF HoldsTracker(res)
     THEN /\ CallDispose(Append(cs, [Frame("throw", "disposing") EXCEPT !.err = <<err>>]))
          /\ UNCHANGED res
     ELSE /\ Return(Frame("throw", "return"), cs, Throw(err))
          /\ UNCHANGED <<res, state, disposal>>

\* res[symbolDispose]() returned to next / return / throw: res = undefined and
\* the result; or it raised.
IterAfterDispose ==
  /\ callStack # <<>>
  /\ Top.op \in {"next", "return", "throw"}
  /\ Top.pc = "disposing"
  /\ ret.t # "none"
  /\ IF ret.t = "throw"
     THEN /\ res' = res
          /\ IF Top.op = "throw"
             THEN Return(Top, Rest, Throw(mergeCause(ret.err[1], Top.err[1])))
             ELSE Return(Top, Rest, ret)
     ELSE /\ res' = "undefined"
          /\ IF Top.op = "throw"
             THEN Return(Top, Rest, Throw(Top.err[1]))
             ELSE Return(Top, Rest, IterResult(TRUE))
  /\ UNCHANGED <<variant, inner, stream, lastUsing,
                 trackerVars, created, exposed, used, itValue, pass, nval,
                 histVars>>

\* The script drives the iterator by hand.
ItNext ==
  /\ ScriptTurn
  /\ created = "iterator"
  /\ pass.n < MaxPass
  /\ CallNext(<<>>)
  /\ exposed' = (exposed \/ (~used /\ res = "tracker" /\ itValue = "tracker"))
  /\ raised' = Kept
  /\ UNCHANGED <<variant, inner, stream, lastUsing,
                 resourceStack, usingBound, created, itValue, nval,
                 log, added>>

ItReturn ==
  /\ ScriptTurn
  /\ created = "iterator"
  /\ pass.n < MaxPass
  /\ CallReturn(<<>>)
  /\ raised' = Kept
  /\ UNCHANGED <<variant, inner, stream, lastUsing,
                 resourceStack, usingBound, created, exposed, itValue, nval,
                 log, added>>

ItThrow(shape) ==
  /\ ScriptTurn
  /\ created = "iterator"
  /\ pass.n < MaxPass
  /\ LET e == Err("body", 0, shape)
     IN /\ CallThrow(<<>>, e)
        /\ raised' = Kept \cup {Ident(e)}
  /\ UNCHANGED <<variant, inner, stream, lastUsing,
                 resourceStack, usingBound, created, exposed, itValue, nval,
                 log, added>>

-----------------------------------------------------------------------------
\* The for-of / for-await-of statement over the per-pass iterator, as the
\* language runs it: next() before each pass; return() when the body exits by
\* break or by a throw, whose error then wins over an error of return().

\* for (const { using } of Disposable) ...
ForOf ==
  /\ callStack = <<>>
  /\ created = "none"
  /\ NewIterator("forof")
  /\ Push(<<Frame("forof", "start")>>)
  /\ UNCHANGED <<variant, inner, stream, lastUsing, exposed, nval, histVars>>

\* for (const res of iterator) ... over an iterator the script already holds
ForOfIterator ==
  /\ ScriptTurn
  /\ created = "iterator"
  /\ created' = "forof"
  /\ Push(<<Frame("forof", "start")>>)
  /\ raised' = Kept
  /\ UNCHANGED <<variant, inner, stream, lastUsing,
                 trackerVars, exposed, iterVars, nval, log, added, disposal>>

\* The statement calls next().
ForOfAdvance ==
  /\ TopIs("forof", "start")
  /\ CallNext(Append(Rest, [Top EXCEPT !.pc = "next"]))
  /\ UNCHANGED <<variant, inner, stream, lastUsing,
                 resourceStack, usingBound, created, exposed, itValue, nval,
                 log, added, raised>>

\* next() completed: the body runs with the value, or the statement completes.
ForOfOnNext ==
  /\ TopIs("forof", "next")
  /\ ret.t # "none"
  /\ IF ret.t = "normal" /\ ~ret.done
     THEN /\ callStack' = Append(Rest, [Top EXCEPT !.pc = "body"])
          /\ ret' = None
          /\ exposed' = (exposed \/ itValue = "tracker")
          /\ UNCHANGED <<parked, unhandled>>
     ELSE /\ Return(Top, Rest, IF ret.t = "throw" THEN ret ELSE Normal)
          /\ UNCHANGED exposed
  /\ UNCHANGED <<variant, inner, stream, lastUsing,
                 trackerVars, created, iterVars, nval, histVars>>

\* The body completes normally: the statement goes for the next value.
BodyEnd ==
  /\ TopIs("forof", "body")
  /\ callStack' = Append(Rest, [Top EXCEPT !.pc = "start"])
  /\ ret' = None
  /\ raised' = Kept
  /\ UNCHANGED <<variant, inner, stream, lastUsing,
                 trackerVars, created, exposed, iterVars, nval,
                 log, added, disposal, parked, unhandled>>

\* The body exits by break (or return): the statement calls return().
BodyBreak ==
  /\ TopIs("forof", "body")
  /\ CallReturn(Append(Rest, [Top EXCEPT !.pc = "return", !.completion = "break"]))
  /\ raised' = Kept
  /\ UNCHANGED <<variant, inner, stream, lastUsing,
                 resourceStack, usingBound, created, exposed, itValue, nval,
                 log, added>>

\* The body throws: the statement calls return().
BodyThrow(shape) ==
  /\ TopIs("forof", "body")
  /\ LET e == Err("body", 0, shape)
     IN /\ CallReturn(Append(Rest, [Top EXCEPT !.pc = "return",
                                               !.completion = "throw",
                                               !.err = <<e>>]))
        /\ raised' = Kept \cup {Ident(e)}
  /\ UNCHANGED <<variant, inner, stream, lastUsing,
                 resourceStack, usingBound, created, exposed, itValue, nval,
                 log, added>>

\* The body lets the error of a call it made propagate.
BodyRethrow ==
  /\ TopIs("forof", "body")
  /\ ret.t = "throw"
  /\ CallReturn(Append(Rest, [Top EXCEPT !.pc = "return",
                                         !.completion = "throw",
                                         !.err = ret.err]))
  /\ UNCHANGED <<variant, inner, stream, lastUsing,
                 resourceStack, usingBound, created, exposed, itValue, nval,
                 log, added, raised>>

\* return() completed: a throw completion of the body wins; after a break an
\* error of return() is the statement's.
ForOfOnReturn ==
  /\ TopIs("forof", "return")
  /\ ret.t # "none"
  /\ Return(Top, Rest,
            IF Top.completion = "throw" THEN Throw(Top.err[1])
            ELSE IF ret.t = "throw" THEN ret
            ELSE Normal)
  /\ UNCHANGED <<variant, inner, stream, lastUsing,
                 trackerVars, created, exposed, iterVars, nval, histVars>>

-----------------------------------------------------------------------------
\* wrapIterator: the streaming iterator of Disposable.usingFrom(values, mapFn),
\* which the script drives by hand.  A for-of statement is one such driver: it
\* calls next until done, and return when its body breaks out or throws.

\* Number of calls (next, return, throw) the consumer makes on one iterator.
MaxCalls == 4

\* The closure of wrapIterator (mapFn, hasReturn, hasThrow, closed,
\* pendingRecord) and the history of its source: `asked`, `returns`, `throws`
\* count the calls of the source's next, return and throw; `items` the items
\* mapFn and recognition ran for; `recognised` the records addDisposable made;
\* `yielded` the records handed to the consumer;
\* `sourceDone` that the source reported done; `closedAt` what asked, items
\* and yielded were when the consumer first closed the iterator.
Stream(mapFn, hasReturn, hasThrow) ==
  [wrapped |-> TRUE, mapFn |-> mapFn, hasReturn |-> hasReturn,
   hasThrow |-> hasThrow, closed |-> FALSE, pendingRecord |-> NoRecord,
   calls |-> 0, asked |-> 0, returns |-> 0, throws |-> 0, items |-> 0,
   yielded |-> <<>>, sourceDone |-> FALSE, closedAt |-> <<>>,
   recognised |-> <<>>]

NoStream == [Stream("default", FALSE, FALSE) EXCEPT !.wrapped = FALSE]

\* static usingFrom(values, mapFn) and the [Symbol.iterator]() of what it
\* returns: wrapIterator(iterator, mapFn)
UsingFrom(mapFn, hasReturn, hasThrow) ==
  /\ callStack = <<>>
  /\ created = "none"
  /\ created' = "stream"
  /\ stream' = Stream(mapFn, hasReturn, hasThrow)
  /\ Return(Frame("usingFrom", "return"), <<>>, Normal)
  /\ UNCHANGED <<variant, inner, trackerVars, exposed, iterVars, nval, histVars,
                 lastUsing>>

\* history: the consumer closes the iterator
CloseNow(st) ==
  IF st.closedAt # <<>> THEN st.closedAt
  ELSE <<[asked |-> st.asked, items |-> st.items, yielded |-> st.yielded]>>

\* The script calls next().
WrappedNext ==
  /\ ScriptTurn
  /\ created = "stream"
  /\ stream.calls < MaxCalls
  /\ stream' = [stream EXCEPT !.calls = @ + 1]
  /\ Push(<<Frame("wrapped.next", "dispose")>>)
  /\ raised' = Kept
  /\ UNCHANGED <<variant, inner, trackerVars, created, exposed, iterVars, nval,
                 log, added, disposal, lastUsing>>

\* The script calls return(): closed = true
WrappedReturn ==
  /\ ScriptTurn
  /\ created = "stream"
  /\ stream.calls < MaxCalls
  /\ stream' = [stream EXCEPT !.calls = @ + 1, !.closed = TRUE,
                              !.closedAt = CloseNow(stream)]
  /\ Push(<<Frame("wrapped.return", "dispose")>>)
  /\ raised' = Kept
  /\ UNCHANGED <<variant, inner, trackerVars, created, exposed, iterVars, nval,
                 log, added, disposal, lastUsing>>

\* The script calls throw(err): closed = true
WrappedThrow(shape) ==
  /\ ScriptTurn
  /\ created = "stream"
  /\ stream.calls < MaxCalls
  /\ stream' = [stream EXCEPT !.calls = @ + 1, !.closed = TRUE,
                              !.closedAt = CloseNow(stream)]
  /\ LET e == Err("body", 0, shape)
     IN /\ Push(<<[Frame("wrapped.throw", "dispose") EXCEPT !.err = <<e>>]>>)
        /\ raised' = Kept \cup {Ident(e)}
  /\ UNCHANGED <<variant, inner, trackerVars, created, exposed, iterVars, nval,
                 log, added, disposal, lastUsing>>

\* if (!pendingRecord) return
HasPendingNever(record) == FALSE
HasPending(record) == record # NoRecord

\* dispose(), the first thing next, return and throw do:
\* if (!pendingRecord) return; pendingRecord = undefined;
\* return disposeRecord(record)
WrappedDispose ==
  /\ callStack # <<>>
  /\ Top.op \in WrappedOps
  /\ Top.pc = "dispose"
  /\ IF HasPending(stream.pendingRecord)
     THEN /\ stream' = [stream EXCEPT !.pendingRecord = NoRecord]
          /\ disposeRecord(Append(Rest, [Top EXCEPT !.pc = "disposed"]),
                           stream.pendingRecord)
     ELSE /\ callStack' = Append(Rest, [Top EXCEPT !.pc = "disposed"])
          /\ ret' = Normal
          /\ UNCHANGED <<stream, log, parked, unhandled>>
  /\ UNCHANGED <<variant, inner, trackerVars, created, exposed, iterVars, nval,
                 added, disposal, raised, lastUsing>>

\* A call by frame f (whose callers are cs) of a method of the source iterator.
CallSource(f, cs, method) ==
  Push(cs \o <<f, [Frame("source", method) EXCEPT !.awaits = FALSE]>>)

\* The catch block of tryOrClose for err, nothing being pending: closed = true;
\* finally, if (closeIter && hasReturn) iter.return(); throw err.  `st` is the
\* stream with its history brought up to date.
Close(f, cs, err, closeIter, st) ==
  IF closeIter /\ st.hasReturn
  THEN /\ stream' = [st EXCEPT !.closed = TRUE, !.returns = @ + 1]
       /\ CallSource([f EXCEPT !.pc = "closing", !.err = <<err>>], cs, "return")
  ELSE /\ stream' = [st EXCEPT !.closed = TRUE]
       /\ Return(f, cs, Throw(err))

\* tryOrClose(fn, closeIter) when fn fails with err.  In async-disposable.js fn
\* is an async arrow function: its failure is a rejected promise, which
\* `return fn()` hands on without the catch block running.
Fail(f, cs, err, closeIter, st) ==
  IF variant = "async"
  THEN /\ stream' = st
       /\ Return(f, cs, Throw(err))
  ELSE Close(f, cs, err, closeIter, st)

\* closed ? { value: undefined, done: true } : iter.next(...args)
NextAsksSourceAlways(closed) == TRUE
NextAsksSource(closed) == ~closed

\* next, after tryOrClose(dispose, true).  A cleanup that threw is caught by
\* tryOrClose; a promise of a cleanup that rejected is not (async variant).
WrappedPull ==
  /\ TopIs("wrapped.next", "disposed")
  /\ ret.t # "none"
  /\ IF ret.t = "throw"
     THEN IF ret.op = "await"
          THEN /\ Return(Top, Rest, Throw(ret.err[1]))
               /\ UNCHANGED stream
          ELSE Close(Top, Rest, ret.err[1], TRUE, stream)
     ELSE IF NextAsksSource(stream.closed)
     THEN /\ stream' = [stream EXCEPT !.asked = @ + 1]
          /\ CallSource([Top EXCEPT !.pc = "pulling"], Rest, "next")
     ELSE /\ Return(Top, Rest, IterResult(TRUE))
          /\ UNCHANGED stream
  /\ UNCHANGED <<variant, inner, trackerVars, created, exposed, iterVars, nval,
                 histVars, lastUsing>>

\* The source is running its next, return or throw for the adapter.
InSource(method) == TopIs("source", method) /\ Rest # <<>>

\* The frame of the adapter that called the source, and its callers.
Adapter == Rest[Len(Rest)]
AdapterCallers == SubSeq(Rest, 1, Len(Rest) - 1)

\* The source yields an item; the last step of next: mapFn returns a resource
\* for it, addDisposable recognises it or throws the TypeError, and
\* pendingRecord = stack[0]; next returns the source's result.
SourceItem(kind) ==
  /\ InSource("next")
  /\ ~stream.sourceDone
  /\ nval < MaxRes
  /\ nval' = nval + 1
  /\ LET value == IF stream.mapFn = "custom"
                  THEN MkValue(nval + 1, "value", "invalid")
                  ELSE MkValue(nval + 1, "value", kind)
         mapped == IF stream.mapFn = "custom"
                   THEN MkValue(nval + 1, "mapped", kind)
                   ELSE value
         record == getRecordFromValue(mapped, value)
         e == TypeError("Invalid disposable", nval + 1)
         st == [stream EXCEPT !.items = @ + 1]
     IN IF record = NoRecord
        THEN /\ Fail(Adapter, AdapterCallers, e, TRUE, st)
             /\ raised' = raised \cup {Ident(e)}
        ELSE /\ stream' = [st EXCEPT !.pendingRecord = record,
                                     !.recognised = Append(@, record.rid),
                                     !.yielded = Append(@, record.rid)]
             /\ Return(Adapter, AdapterCallers,
                       [IterResult(FALSE) EXCEPT !.val = <<value>>])
             /\ UNCHANGED raised
  /\ UNCHANGED <<variant, inner, trackerVars, created, exposed, iterVars,
                 log, added, disposal, lastUsing>>

\* The source yields an item and mapFn raises for it.
SourceMapThrows(shape) ==
  /\ InSource("next")
  /\ ~stream.sourceDone
  /\ stream.mapFn = "custom"
  /\ nval < MaxRes
  /\ nval' = nval + 1
  /\ LET e == Err("mapFn", nval + 1, shape)
     IN /\ Fail(Adapter, AdapterCallers, e, TRUE,
                [stream EXCEPT !.items = @ + 1])
        /\ raised' = raised \cup {Ident(e)}
  /\ UNCHANGED <<variant, inner, trackerVars, created, exposed, iterVars,
                 log, added, disposal, lastUsing>>

\* The source reports done (and goes on doing so when asked again).
SourceDone ==
  /\ InSource("next")
  /\ stream' = [stream EXCEPT !.sourceDone = TRUE]
  /\ Return(Adapter, AdapterCallers, IterResult(TRUE))
  /\ UNCHANGED <<variant, inner, trackerVars, created, exposed, iterVars, nval,
                 histVars, lastUsing>>

\* The source's next raises: tryOrClose(() => iter.next(...args)), called
\* without closeIter.
SourceNextThrows(shape) ==
  /\ InSource("next")
  /\ ~stream.sourceDone
  /\ LET e == Err("source", 0, shape)
     IN /\ Fail(Adapter, AdapterCallers, e, FALSE, stream)
        /\ raised' = raised \cup {Ident(e)}
  /\ UNCHANGED <<variant, inner, trackerVars, created, exposed, iterVars, nval,
                 log, added, disposal, lastUsing>>

\* The source's return returns { done: true }: tryOrClose and throw go on to
\* throw their error, return returns that result.
SourceOnReturn ==
  /\ InSource("return")
  /\ Return(Adapter, AdapterCallers,
            IF Adapter.err # <<>> THEN Throw(Adapter.err[1]) ELSE IterResult(TRUE))
  /\ UNCHANGED <<variant, inner, stream, trackerVars, created, exposed, iterVars, nval,
                 histVars, lastUsing>>

\* The source's throw raises the error it was given (a generator that does not
\* catch it).
SourceOnThrow ==
  /\ InSource("throw")
  /\ Return(Adapter, AdapterCallers, Throw(Adapter.err[1]))
  /\ UNCHANGED <<variant, inner, stream, trackerVars, created, exposed, iterVars, nval,
                 histVars, lastUsing>>

\* return and throw, after dispose(): an error of the disposal propagates;
\* otherwise return iter.return(...args), or return iter.throw(...args), or
\* iter.return(undefined) and throw args[0].
WrappedClose ==
  /\ callStack # <<>>
  /\ Top.op \in {"wrapped.return", "wrapped.throw"}
  /\ Top.pc = "disposed"
  /\ ret.t # "none"
  /\ IF ret.t = "throw"
     THEN /\ Return(Top, Rest, Throw(ret.err[1]))
          /\ UNCHANGED stream
     ELSE IF Top.op = "wrapped.throw" /\ stream.hasThrow
     THEN /\ stream' = [stream EXCEPT !.throws = @ + 1]
          /\ CallSource([Top EXCEPT !.pc = "closing"], Rest, "throw")
     ELSE IF stream.hasReturn
     THEN /\ stream' = [stream EXCEPT !.returns = @ + 1]
          /\ CallSource([Top EXCEPT !.pc = "closing"], Rest, "return")
     ELSE /\ Return(Top, Rest, IF Top.op = "wrapped.throw" THEN Throw(Top.err[1])
                               ELSE IterResult(TRUE))
          /\ UNCHANGED stream
  /\ UNCHANGED <<variant, inner, trackerVars, created, exposed, iterVars, nval,
                 histVars, lastUsing>>

-----------------------------------------------------------------------------

\* A script that does not await: it makes a call while the promise of an
\* earlier call of its is pending (async variant).

Overlapped ==
  /\ variant = "async"
  /\ callStack = <<>>
  /\ \E c \in parked : ~c.frames[1].detached

\* tracker[symbolAsyncDispose]() while an earlier call is pending
DisposeOverlapping ==
  /\ Overlapped
  /\ exposed
  /\ CallDispose(<<>>)
  /\ UNCHANGED <<variant, inner, stream, lastUsing,
                 resourceStack, usingBound, created, exposed, iterVars,
                 nval, log, added, raised>>

\* next() of the per-pass iterator while an earlier call is pending
ItNextOverlapping ==
  /\ Overlapped
  /\ created = "iterator"
  /\ pass.n < MaxPass
  /\ CallNext(<<>>)
  /\ exposed' = (exposed \/ (~used /\ res = "tracker" /\ itValue = "tracker"))
  /\ UNCHANGED <<variant, inner, stream, lastUsing,
                 resourceStack, usingBound, created, itValue, nval,
                 log, added, raised>>

\* return() of the per-pass iterator while an earlier call is pending
ItReturnOverlapping ==
  /\ Overlapped
  /\ created = "iterator"
  /\ pass.n < MaxPass
  /\ CallReturn(<<>>)
  /\ UNCHANGED <<variant, inner, stream, lastUsing,
                 resourceStack, usingBound, created, exposed, itValue, nval,
                 log, added, raised>>

\* next() of the streaming iterator while an earlier call is pending
WrappedNextOverlapping ==
  /\ Overlapped
  /\ created = "stream"
  /\ stream.calls < MaxCalls
  /\ stream' = [stream EXCEPT !.calls = @ + 1]
  /\ Push(<<Frame("wrapped.next", "dispose")>>)
  /\ UNCHANGED <<variant, inner, trackerVars, created, exposed, iterVars, nval,
                 histVars, lastUsing>>

\* The awaits of the async next(), step by step, as they matter when calls
\* overlap: `await tryOrClose(dispose, true)`, `await tryOrClose(async () =>
\* iter.next(...args))`, and `await dispose()` inside the last step.  The call
\* is suspended with the completion it awaits and resumed from the job queue.
WrappedAwait ==
  /\ variant = "async"
  /\ callStack # <<>>
  /\ Top.op = "wrapped.next"
  /\ Top.pc \in {"disposed", "pulled", "redisposed"}
  /\ ret.t # "none"
  /\ Suspend(callStack, 0, ret)
  /\ UNCHANGED <<variant, inner, stream, trackerVars, created, exposed, iterVars,
                 nval, histVars, lastUsing>>

\* The source yields an item: nextResult = await tryOrClose(async () =>
\* iter.next(...args)) with done false.
SourceYields ==
  /\ InSource("next")
  /\ ~stream.sourceDone
  /\ nval < MaxRes
  /\ nval' = nval + 1
  /\ callStack' = Append(AdapterCallers,
                         [Adapter EXCEPT !.pc = "pulled", !.nth = nval + 1])
  /\ ret' = IterResult(FALSE)
  /\ UNCHANGED <<variant, inner, stream, trackerVars, created, exposed, iterVars,
                 histVars, lastUsing, parked, unhandled>>

\* The last step of next for an item: addDisposable(getDisposable(value),
\* value, stack), which throws the TypeError for a value that is not
\* recognised (a rejection of the async arrow function, which tryOrClose hands
\* on), and then the call of dispose() that is awaited: the cleanup of the
\* record that is pending at this moment is invoked.
WrappedAdd(kind) ==
  /\ TopIs("wrapped.next", "pulled")
  /\ ret.t = "normal"
  /\ LET value == IF stream.mapFn = "custom"
                  THEN MkValue(Top.nth, "value", "invalid")
                  ELSE MkValue(Top.nth, "value", kind)
         mapped == IF stream.mapFn = "custom"
                   THEN MkValue(Top.nth, "mapped", kind)
                   ELSE value
         record == getRecordFromValue(mapped, value)
         e == TypeError("Invalid disposable", Top.nth)
         st == [stream EXCEPT
                  !.items = @ + 1,
                  !.recognised = IF record = NoRecord THEN @
                                 ELSE Append(@, record.rid)]
         f == [Top EXCEPT !.pc = "redisposed", !.record = record,
                          !.nextResult = [IterResult(FALSE) EXCEPT !.val = <<value>>]]
     IN IF record = NoRecord
        THEN /\ Fail(Top, Rest, e, TRUE, st)
             /\ raised' = raised \cup {Ident(e)}
             /\ UNCHANGED log
        ELSE IF HasPending(stream.pendingRecord)
        THEN /\ stream' = [st EXCEPT !.pendingRecord = NoRecord]
             /\ disposeRecord(Append(Rest, f), stream.pendingRecord)
             /\ UNCHANGED raised
        ELSE /\ stream' = st
             /\ callStack' = Append(Rest, f)
             /\ ret' = Normal
             /\ UNCHANGED <<log, raised, parked, unhandled>>
  /\ UNCHANGED <<variant, inner, trackerVars, created, exposed, iterVars, nval,
                 added, disposal, lastUsing>>

\* mapFn raises for the item.
WrappedAddMapThrows(shape) ==
  /\ TopIs("wrapped.next", "pulled")
  /\ ret.t = "normal"
  /\ stream.mapFn = "custom"
  /\ LET e == Err("mapFn", Top.nth, shape)
     IN /\ Fail(Top, Rest, e, TRUE, [stream EXCEPT !.items = @ + 1])
        /\ raised' = raised \cup {Ident(e)}
  /\ UNCHANGED <<variant, inner, trackerVars, created, exposed, iterVars, nval,
                 log, added, disposal, lastUsing>>

\* After `await dispose()`: pendingRecord = stack[0], and next returns
\* nextResult; or the disposal raised and next rejects with its error.
WrappedSetPending ==
  /\ TopIs("wrapped.next", "redisposed")
  /\ ret.t # "none"
  /\ IF ret.t = "throw"
     THEN /\ Return(Top, Rest, Throw(ret.err[1]))
          /\ UNCHANGED stream
     ELSE /\ stream' = [stream EXCEPT !.pendingRecord = Top.record,
                                      !.yielded = Append(@, Top.record.rid)]
          /\ Return(Top, Rest, Top.nextResult)
  /\ UNCHANGED <<variant, inner, trackerVars, created, exposed, iterVars, nval,
                 histVars, lastUsing>>

-----------------------------------------------------------------------------
Variants == {"sync", "async"}

Init ==
  /\ variant \in Variants
  /\ state = "pending"
  /\ resourceStack = <<>>
  /\ usingBound = FALSE
  /\ created = "none"
  /\ exposed = FALSE
  /\ res = "undefined"
  /\ used = FALSE
  /\ itValue = "tracker"
  /\ callStack = <<>>
  /\ parked = {}
  /\ ret = None
  /\ log = <<>>
  /\ added = <<>>
  /\ nval = 0
  /\ disposal = [started |-> FALSE, n |-> 0, finished |-> FALSE, result |-> None,
                 later |-> "none", early |-> FALSE]
  /\ raised = {}
  /\ unhandled = {}
  /\ lastUsing = UsingCall(0, "tracker", "invalid", FALSE, "script")
  /\ stream = NoStream
  /\ pass = NoPass
  /\ inner = NoInner

\* The drain loop and the cleanups it runs.
Disposing ==
  \/ DisposeLoop
  \/ DisposeCatch
  \/ CleanupReturn
  \/ \E s \in CleanupShapes : CleanupThrow(s)
  \/ CleanupRethrow
  \/ CleanupReturnPromise
  \/ \E s \in CleanupShapes \cup {"fulfilled"} : CleanupDropPromise(s)
  \/ \E c \in parked, s \in CleanupShapes \cup {"fulfilled"} : SettleCleanup(c, s)
  \/ \E c \in parked : Resume(c)

\* from and the constructor go on after the source has yielded an item.
Populating ==
  \/ FromSourceDone
  \/ \E s \in SourceShapes : FromSourceThrows(s)
  \/ \E s \in SourceShapes : FromMapThrows(s)
  \/ FromRollback

\* The per-pass iterator driven by hand.
Manual ==
  \/ ItNext
  \/ ItReturn
  \/ \E s \in BodyShapes : ItThrow(s)
  \/ IterAfterDispose

\* The per-pass iterator driven by a for-of statement.
Loop ==
  \/ ForOf
  \/ ForOfIterator
  \/ ForOfAdvance
  \/ ForOfOnNext
  \/ BodyEnd
  \/ BodyBreak
  \/ \E s \in BodyShapes : BodyThrow(s)
  \/ BodyRethrow
  \/ ForOfOnReturn
  \/ IterAfterDispose

\* The streaming iterator and its source.
Streaming ==
  \/ WrappedNext
  \/ WrappedReturn
  \/ \E s \in BodyShapes : WrappedThrow(s)
  \/ WrappedDispose
  \/ WrappedPull
  \/ WrappedClose
  \/ SourceDone
  \/ \E s \in SourceShapes : SourceNextThrows(s)
  \/ \E s \in SourceShapes : SourceMapThrows(s)
  \/ SourceOnReturn
  \/ SourceOnThrow

\* The library as it is now, driven by user code that awaits every promise it
\* is handed.  Scripts whose calls overlap (SpecOverlap, SpecStreamOverlap) and
\* the earlier variant of the tracker (SpecEarlier) have next-state relations
\* of their own.
Next ==
  \/ NewEmpty
  \/ NewArgs
  \/ \E m \in MapFns : From(m)
  \/ \E k \in ValueKinds : FromItem(k)
  \/ Populating
  \/ IterEntry
  \/ \E k \in ValueKinds, o \in BOOLEAN : StaticUsing(k, o)
  \/ Manual
  \/ Loop
  \/ \E t \in UsingThis, k \in ValueKinds, o \in BOOLEAN : Using(t, k, o)
  \/ \E k \in 1..MaxInner, kind \in InnerKinds : UsingTracker(k, kind)
  \/ UsingRollback
  \/ Dispose
  \/ Disposing
  \/ InnerDisposeLoop
  \/ \E m \in MapFns, r, t \in BOOLEAN : UsingFrom(m, r, t)
  \/ \E k \in ValueKinds : SourceItem(k)
  \/ Streaming

Spec == Init /\ [][Next]_vars

\* One kind of value for each hint a record can have, and one that is refused.
HintKinds ==
  IF variant = "sync" THEN {"disposable", "invalid"}
  ELSE {"disposable", "function", "invalid"}

\* A tracker of the constructor or of from, used and disposed by hand.
NextTracker ==
  \/ NewEmpty
  \/ NewArgs
  \/ \E m \in MapFns : From(m)
  \/ \E k \in HintKinds : FromItem(k)
  \/ Populating
  \/ \E t \in UsingThis, k \in HintKinds : Using(t, k, FALSE)
  \/ UsingRollback
  \/ Dispose
  \/ Disposing

SpecTracker == Init /\ [][NextTracker]_vars

\* The same, where a disposal that can go on does: synchronous code runs to
\* completion, every cleanup returns or raises, every promise a cleanup
\* returned settles and every continuation in the job queue is run.
SpecTrackerLive ==
  SpecTracker /\ WF_vars(Disposing \/ UsingRollback \/ FromRollback)

\* A tracker behind a per-pass iterator the script drives by hand.
NextIterator ==
  \/ IterEntry
  \/ \E k \in HintKinds : StaticUsing(k, FALSE)
  \/ Manual
  \/ \E t \in UsingThis, k \in HintKinds : Using(t, k, FALSE)
  \/ UsingRollback
  \/ Dispose
  \/ Disposing

SpecIterator == Init /\ [][NextIterator]_vars

\* A tracker behind a per-pass iterator that a for-of statement drives.
NextForOf ==
  \/ IterEntry
  \/ \E k \in HintKinds : StaticUsing(k, FALSE)
  \/ Loop
  \/ \E t \in UsingThis, k \in HintKinds : Using(t, k, FALSE)
  \/ UsingRollback
  \/ Dispose
  \/ Disposing

SpecForOf == Init /\ [][NextForOf]_vars

\* A streaming iterator the script drives by hand.
NextStream ==
  \/ \E m \in MapFns, r, t \in BOOLEAN : UsingFrom(m, r, t)
  \/ \E k \in HintKinds : SourceItem(k)
  \/ Streaming
  \/ CleanupReturn
  \/ \E s \in CleanupShapes : CleanupThrow(s)
  \/ CleanupReturnPromise
  \/ \E c \in parked, s \in CleanupShapes \cup {"fulfilled"} : SettleCleanup(c, s)

SpecStream == Init /\ [][NextStream]_vars

\* A tracker of the constructor, with every kind of argument of using.
NextUsing ==
  \/ NewEmpty
  \/ \E t \in UsingThis, k \in ValueKinds, o \in BOOLEAN : Using(t, k, o)
  \/ UsingRollback
  \/ Dispose
  \/ DisposeLoop
  \/ DisposeCatch
  \/ CleanupReturn
  \/ \E s \in CleanupShapes : CleanupThrow(s)
  \/ CleanupRethrow
  \/ CleanupReturnPromise
  \/ \E s \in CleanupShapes \cup {"fulfilled"} : CleanupDropPromise(s)
  \/ \E c \in parked, s \in CleanupShapes \cup {"fulfilled"} : SettleCleanup(c, s)

SpecUsing == Init /\ [][NextUsing]_vars

\* A tracker of the constructor that holds another tracker among its records.
NextNested ==
  \/ NewEmpty
  \/ \E k \in InnerKinds \cup {"invalid"} : Using("tracker", k, FALSE)
  \/ \E k \in 1..MaxInner, kind \in InnerKinds : UsingTracker(k, kind)
  \/ UsingRollback
  \/ Dispose
  \/ DisposeLoop
  \/ InnerDisposeLoop
  \/ DisposeCatch
  \/ CleanupReturn
  \/ \E s \in CleanupShapes : CleanupThrow(s)
  \/ CleanupRethrow
  \/ CleanupReturnPromise
  \/ \E s \in CleanupShapes \cup {"fulfilled"} : CleanupDropPromise(s)
  \/ \E c \in parked, s \in CleanupShapes \cup {"fulfilled"} : SettleCleanup(c, s)
  \/ \E c \in parked : Resume(c)

SpecNested == Init /\ [][NextNested]_vars

\* A tracker of the constructor, with using of every kind of value.
NextRecognition ==
  \/ NewEmpty
  \/ \E k \in TagKinds, o \in BOOLEAN : Using("tracker", k, o)
  \/ UsingRollback
  \/ Dispose
  \/ DisposeLoop
  \/ DisposeCatch
  \/ CleanupReturn
  \/ \E s \in CleanupShapes : CleanupThrow(s)
  \/ CleanupRethrow
  \/ CleanupReturnPromise
  \/ \E s \in CleanupShapes \cup {"fulfilled"} : CleanupDropPromise(s)
  \/ \E c \in parked, s \in CleanupShapes \cup {"fulfilled"} : SettleCleanup(c, s)

SpecRecognition == Init /\ [][NextRecognition]_vars

\* An async tracker, of the constructor or behind a per-pass iterator, and a
\* script that makes calls while earlier calls of its are pending.
NextOverlap ==
  \/ NewEmpty
  \/ IterEntry
  \/ \E k \in HintKinds : Using("tracker", k, FALSE)
  \/ UsingRollback
  \/ Dispose
  \/ ItNext
  \/ ItReturn
  \/ IterAfterDispose
  \/ DisposeOverlapping
  \/ ItNextOverlapping
  \/ ItReturnOverlapping
  \/ Disposing

InitOverlap == Init /\ variant = "async"

SpecOverlap == InitOverlap /\ [][NextOverlap]_vars

\* An async streaming iterator and a script that calls next() while earlier
\* calls of its are pending.
NextStreamOverlap ==
  \/ \E m \in MapFns, r, t \in BOOLEAN : UsingFrom(m, r, t)
  \/ WrappedNext
  \/ WrappedNextOverlapping
  \/ WrappedReturn
  \/ WrappedDispose
  \/ WrappedPull
  \/ WrappedAwait
  \/ SourceYields
  \/ \E k \in HintKinds : WrappedAdd(k)
  \/ \E s \in SourceShapes : WrappedAddMapThrows(s)
  \/ WrappedSetPending
  \/ SourceDone
  \/ \E s \in SourceShapes : SourceNextThrows(s)
  \/ SourceOnReturn
  \/ WrappedClose
  \/ CleanupReturn
  \/ \E s \in CleanupShapes : CleanupThrow(s)
  \/ CleanupReturnPromise
  \/ \E c \in parked, s \in CleanupShapes \cup {"fulfilled"} : SettleCleanup(c, s)
  \/ \E c \in parked : Resume(c)

SpecStreamOverlap == InitOverlap /\ [][NextStreamOverlap]_vars

\* The earlier variant of the tracker, made by the constructor or behind its
\* per-pass iterator, with its using that performs no disposed check.
NextEarlier ==
  \/ NewEmpty
  \/ IterEntry
  \/ ItNext
  \/ ItReturn
  \/ IterAfterDispose
  \/ \E t \in UsingThis, k \in HintKinds : UsingEarlier(t, k, FALSE)
  \/ Dispose
  \/ DisposeLoop
  \/ DisposeCatch
  \/ DisposeAwaitEarlier
  \/ CleanupReturn
  \/ \E s \in CleanupShapes : CleanupThrow(s)
  \/ CleanupRethrow
  \/ CleanupReturnPromise
  \/ \E c \in parked, s \in CleanupShapes \cup {"fulfilled"} : SettleCleanup(c, s)
  \/ \E c \in parked : Resume(c)

SpecEarlier == Init /\ [][NextEarlier]_vars

-----------------------------------------------------------------------------
\* What the history says.

\* The ids of the records pushed on the stack, in the order they were pushed.
AddedIds == [i \in 1..Len(added) |-> added[i].rid]

\* The invocations of the cleanups of records that were on the stack, in order.
Drained ==
  SelectSeq(log, LAMBDA x : \E i \in 1..Len(added) : added[i].rid = x.record.rid)

DrainedIds == [i \in 1..Len(Drained) |-> Drained[i].record.rid]

\* The errors those cleanups raised, in the order the cleanups were invoked.
DrainedErrors ==
  LET T == SelectSeq(Drained, LAMBDA x : x.result.t = "throw")
  IN [i \in 1..Len(T) |-> T[i].result.err[1]]

IsPrefix(p, q) == Len(p) <= Len(q) /\ SubSeq(q, 1, Len(p)) = p

\* The script has been handed the completion of its call of `op`.
Completed(op) == callStack = <<>> /\ ret.op = op

\* Errors of cleanups among the errors raised during the script's call.
CleanupErrors == {e \in raised : e[1] = "cleanup"}

-----------------------------------------------------------------------------
\* C1: the cleanups of the records R1..RN that the constructor, from, using and
\* a detached using pushed on one tracker are invoked in the order RN..R1: at
\* every moment the cleanups invoked so far are the first ones of that reverse
\* order, and once the disposal has finished they are all of it.
C1_LifoOrder ==
  /\ IsPrefix(DrainedIds, Reverse(AddedIds))
  /\ disposal.finished => DrainedIds = Reverse(AddedIds)

\* A tracker populated by the constructor or from and then by a detached using
\* has been disposed.
C1_Witness ==
  /\ disposal.finished
  /\ Len(added) = 2
  /\ added[1].via \in {"constructor", "from"}
  /\ added[2].via = "detached"
  /\ DrainedIds = <<added[2].rid, added[1].rid>>

\* C2: whatever the disposal triggers (direct calls, the iterator's next, return
\* and throw, calls made from inside a cleanup), no cleanup is invoked twice, and
\* a disposal call after the first returns at once, normally, and never runs the
\* drain loop.
C2_AtMostOnce ==
  /\ \A i, j \in 1..Len(log) : log[i].record.rid = log[j].record.rid => i = j
  /\ disposal.later # "drained"
  /\ \A i \in 1..Len(callStack) : callStack[i].op = "dispose" => callStack[i].nth = 1
  /\ \A c \in parked : \A i \in 1..Len(c.frames) :
       c.frames[i].op = "dispose" => c.frames[i].nth = 1

\* A later disposal call was made on an iterator's tracker whose disposal ran a
\* cleanup.
C2_Witness ==
  /\ created = "iterator"
  /\ disposal.finished
  /\ disposal.later = "returned"
  /\ Len(Drained) >= 1
  /\ callStack = <<>>

\* C3: a disposal that starts with N records invokes all N cleanups, each once,
\* whichever of them raise, and it raises (or returns) only once the stack is
\* empty.
C3_FullUnwind ==
  /\ disposal.started => disposal.n = Len(added)
  /\ disposal.finished =>
       /\ resourceStack = <<>>
       /\ \A i \in 1..Len(added) :
            Cardinality({j \in 1..Len(log) : log[j].record.rid = added[i].rid}) = 1
  /\ ~disposal.finished => disposal.result = None

\* The cleanup of the top record raised and the one beneath it was still run.
C3_Witness ==
  /\ disposal.finished
  /\ disposal.n = 2
  /\ Len(Drained) = 2
  /\ Drained[1].result.t = "throw"
  /\ Drained[2].result.t \in {"normal", "throw"}

\* C4: when a for-of statement over the per-pass iterator completes (the body
\* ended, broke out or threw), every record added to the tracker has had its
\* cleanup invoked exactly once, in reverse order of addition.
C4_ScopeDisposes ==
  Completed("forof") =>
    /\ DrainedIds = Reverse(AddedIds)
    /\ resourceStack = <<>>
    /\ \A i, j \in 1..Len(log) : log[i].record.rid = log[j].record.rid => i = j

\* The body added two resources and threw.
C4_Witness ==
  /\ Completed("forof")
  /\ ret.t = "throw"
  /\ ret.err[1].origin = "body"
  /\ Len(added) = 2
  /\ DrainedIds = <<added[2].rid, added[1].rid>>

\* C5: when throw(E_body) is called on a per-pass iterator, E_body being an
\* object a cause can be attached to, and the disposal it runs raises, the error
\* throw raises is E_body, with a cause.
C5_BodyErrorPrecedence ==
  (/\ Completed("throw")
   /\ <<"body", 0, "obj">> \in raised
   /\ CleanupErrors # {})
  => /\ ret.t = "throw"
     /\ Ident(ret.err[1]) = <<"body", 0, "obj">>
     /\ ret.err[1].cause # <<>>

\* C6: a disposal that started with one record whose cleanup raised E raises E
\* itself; a disposal none of whose cleanups raised returns normally.
C6_SingleError ==
  disposal.finished =>
    /\ (disposal.n = 1 /\ DrainedErrors # <<>>) =>
         disposal.result = Throw(DrainedErrors[1])
    /\ DrainedErrors = <<>> => disposal.result = Normal

\* The one record's cleanup raised.
C6_Witness ==
  /\ disposal.finished
  /\ disposal.n = 1
  /\ Len(DrainedErrors) = 1
  /\ disposal.result.t = "throw"

\* C7: a disposal that started with two or more records, at least one of whose
\* cleanups raised, raises an AggregateError whose errors are the raised errors
\* in the order the cleanups were invoked.
C7_AggregateError ==
  (disposal.finished /\ disposal.n >= 2 /\ DrainedErrors # <<>>) =>
    disposal.result = Throw(AggregateError(DrainedErrors))

\* Only one of two cleanups raised.
C7_Witness ==
  /\ disposal.finished
  /\ disposal.n = 2
  /\ Len(Drained) = 2
  /\ Len(DrainedErrors) = 1
  /\ disposal.result.t = "throw"

\* C8: from returns a tracker only when no item failed recognition and neither
\* the source nor mapFn raised (nothing was raised during the call), and the
\* tracker is then pending with no cleanup invoked; otherwise it raises, having
\* invoked the cleanups of the records it added in reverse order.
C8_FromAllOrNothing ==
  Completed("from") =>
    IF ret.t = "normal"
    THEN raised = {} /\ state = "pending" /\ log = <<>>
    ELSE DrainedIds = Reverse(AddedIds)

\* C9: when from fails during population and a cleanup of the rollback raises,
\* from raises an AggregateError whose errors hold every recognition failure and
\* every error of a cleanup.
C9_FromCombinedError ==
  (Completed("from") /\ ret.t = "throw" /\ CleanupErrors # {}) =>
    /\ ret.err[1].origin = "AggregateError"
    /\ {e \in raised : e[1] \in {"cleanup", "Invalid disposable"}}
         \subseteq {Ident(ret.err[1].errors[i]) : i \in 1..Len(ret.err[1].errors)}

\* C10: when a call of the script has completed (a constructor call, from,
\* using, dispose, the per-pass iterator's next, return or throw, a for-of
\* statement) and nothing of it is pending, every error raised during it by a
\* cleanup, by recognition, by the source, by mapFn or by the body, and not
\* handled by user code, is reachable from the error the call raised.
C10_NoErrorDropped ==
  (/\ callStack = <<>>
   /\ parked = {}
   /\ ret.op \in {"new", "from", "using", "Disposable.using", "dispose",
                  "next", "return", "throw", "forof"})
  => IF ret.t = "throw" THEN raised \subseteq Reach(ret.err[1]) ELSE raised = {}

-----------------------------------------------------------------------------
\* What the history of a streaming iterator says.

\* The invocations of the cleanup of record rid.
Invocations(rid) == {j \in 1..Len(log) : log[j].record.rid = rid}

\* The cleanup of record rid has been invoked once and has settled.
Disposed(rid) ==
  /\ Cardinality(Invocations(rid)) = 1
  /\ \A j \in Invocations(rid) : log[j].result.t \in {"normal", "throw"}

\* The records handed to the consumer whose cleanup has not been invoked.
Undisposed ==
  {i \in 1..Len(stream.yielded) : Invocations(stream.yielded[i]) = {}}

AllYieldedDisposed == \A i \in 1..Len(stream.yielded) : Disposed(stream.yielded[i])

\* C11: while the source of a streaming iterator is being asked for an item,
\* the cleanup of every item handed out so far has been invoked once and has
\* settled; at most one handed-out item is undisposed at any time; once the
\* source has reported done every handed-out item has been disposed exactly once.
C11_StreamScoping ==
  /\ Cardinality(Undisposed) <= 1
  /\ \A i \in 1..Len(stream.yielded) :
       Cardinality(Invocations(stream.yielded[i])) <= 1
  /\ InSource("next") => AllYieldedDisposed
  /\ stream.sourceDone => AllYieldedDisposed

\* The consumer received two items and the source then reported done.
C11_Witness ==
  /\ callStack = <<>>
  /\ stream.sourceDone
  /\ Len(stream.yielded) = 2
  /\ Len(log) = 2

\* C12: once the consumer has closed a streaming iterator, having received k
\* items, the source is not asked for another item and neither mapFn nor
\* recognition runs again; when its calls have completed exactly those k
\* items' cleanups have been invoked, each once; a next() after the close
\* reports done.
C12_EarlyClose ==
  stream.closedAt # <<>> =>
    /\ stream.asked = stream.closedAt[1].asked
    /\ stream.items = stream.closedAt[1].items
    /\ stream.yielded = stream.closedAt[1].yielded
    /\ ~InSource("next")
    /\ (callStack = <<>> /\ parked = {}) =>
         /\ Len(log) = Len(stream.yielded)
         /\ \A i \in 1..Len(stream.yielded) :
              Cardinality(Invocations(stream.yielded[i])) = 1
    /\ Completed("wrapped.next") => (ret.t = "normal" /\ ret.done)

\* The consumer received one item, closed the iterator and called next again;
\* the source had more to give.
C12_Witness ==
  /\ stream.closedAt # <<>>
  /\ Len(stream.closedAt[1].yielded) = 1
  /\ ~stream.sourceDone
  /\ Completed("wrapped.next")
  /\ Len(log) = 1

\* C13: when return() of a streaming iterator whose source has a return method
\* has completed, the source's return has been invoked, whatever the disposal of
\* the pending resource did; and while the source's return runs nothing is
\* pending and every handed-out item has been disposed.
C13_ReturnClosesSource ==
  /\ (Completed("wrapped.return") /\ stream.hasReturn) => stream.returns >= 1
  /\ InSource("return") =>
       (stream.pendingRecord = NoRecord /\ AllYieldedDisposed)

\* C14: when next() of a streaming iterator has completed and the source's next
\* raised during it, next raises the source's error, nothing is pending, every
\* handed-out item has been disposed, and the source's return has been invoked
\* if it has one.
C14_SourceErrorCloses ==
  (Completed("wrapped.next") /\ \E e \in raised : e[1] = "source") =>
    /\ ret.t = "throw"
    /\ Ident(ret.err[1]) \in raised
    /\ stream.pendingRecord = NoRecord
    /\ AllYieldedDisposed
    /\ stream.hasReturn => stream.returns >= 1

\* C15: when throw(E_body) of a streaming iterator has completed and the
\* disposal of the pending resource raised E_disp, throw raises an error from
\* which both E_body and E_disp are reachable.
C15_ThrowCombines ==
  (Completed("wrapped.throw") /\ CleanupErrors # {}) =>
    /\ ret.t = "throw"
    /\ \A e \in raised : e[1] \in {"body", "cleanup"} => e \in Reach(ret.err[1])

-----------------------------------------------------------------------------
\* What a step that is a call of using says.

\* The step is a call of using (by the script or by a cleanup).
UsingStep == lastUsing' # lastUsing

\* The call is made on the tracker.
OnTracker(call) == Receiver(call.this) = "tracker"

\* The value of the call.
UsingValue(call) == MkValue(call.n, "value", call.kind)

\* The recognition rules accept what the call offers: an onDispose callback, or
\* a value with a dispose method, a function, or (async variant) a value with an
\* async dispose method.
Recognisable(call) ==
  \/ call.onDispose
  \/ call.kind \in {"disposable", "function"}
  \/ variant = "async" /\ call.kind = "asyncDisposable"

\* The record of a callback fn given for value number n.
OnDisposeRecord(n) ==
  [rid |-> n, resourceValue |-> "value",
   hint |-> IF variant = "sync" THEN "sync" ELSE "async",
   disposeMethod |-> [of |-> "onDispose", via |-> "call"]]

\* Every invocation of the cleanup of a record made of an onDispose callback is
\* one of the callback with the value as receiver; there is at most one, and
\* exactly one once the tracker's disposal has finished.
OnDisposeInvoked ==
  \A i \in 1..Len(added) :
    added[i].onDispose =>
      /\ \A j \in Invocations(added[i].rid) :
           log[j].record = OnDisposeRecord(added[i].rid)
      /\ Cardinality(Invocations(added[i].rid)) <= 1
      /\ disposal.finished => Cardinality(Invocations(added[i].rid)) = 1

\* C16: using(value, fn), fn a plain callback, on a pending tracker pushes the
\* record of fn with value as receiver, whatever value is; the only cleanup ever
\* invoked for that record is fn with this = value, once, and it has been
\* invoked when the tracker's disposal has finished.
C16_OnDisposeReceiver ==
  [][/\ (UsingStep /\ lastUsing'.onDispose /\ OnTracker(lastUsing')
           /\ state = "pending")
          => /\ resourceStack' = Append(resourceStack, OnDisposeRecord(lastUsing'.n))
             /\ added'[Len(added')].onDispose
             /\ added'[Len(added')].rid = lastUsing'.n
     /\ OnDisposeInvoked']_vars

\* A value with a dispose method of its own was given a callback, and the
\* tracker has been disposed.
C16_Witness ==
  /\ disposal.finished
  /\ \E i \in 1..Len(added) :
       /\ added[i].onDispose
       /\ log[CHOOSE j \in Invocations(added[i].rid) : TRUE].record
            = OnDisposeRecord(added[i].rid)
  /\ lastUsing.onDispose
  /\ lastUsing.kind = "disposable"
  /\ Len(added) = lastUsing.n

\* The error of a call of using for value number n on a disposed tracker.
AlreadyDisposed(n) == <<"AlreadyDisposed", n, "obj">>

\* C17: a call of using with a recognisable resource on a tracker whose state is
\* disposed pushes nothing and invokes the cleanup of the record it built before
\* it returns; and when it returns it raises, the stack is as it was and that
\* cleanup has been invoked exactly once.
C17_DisposedUsingRollsBack ==
  [][/\ (UsingStep /\ OnTracker(lastUsing') /\ Recognisable(lastUsing')
           /\ state = "disposed")
          => /\ resourceStack' = resourceStack
             /\ added' = added
             /\ Len(log') = Len(log) + 1
             /\ log'[Len(log')].record.rid = lastUsing'.n
             /\ callStack' # <<>>
             /\ callStack'[Len(callStack')].op = "cleanup"
             /\ Len(callStack') = Len(callStack) + 2
             /\ callStack'[Len(callStack') - 1].op = "using"
     /\ (TopIs("using", "rollback") /\ callStack' = Rest)
          => /\ ret'.t = "throw"
             /\ AlreadyDisposed(Top.err[1].id) \in Reach(ret'.err[1])
             /\ resourceStack' = resourceStack
             /\ \A i \in 1..Len(added') : added'[i].rid # Top.err[1].id
             /\ Cardinality({j \in 1..Len(log') :
                               log'[j].record.rid = Top.err[1].id}) = 1
     /\ (UsingStep /\ OnTracker(lastUsing') /\ state = "disposed")
          => ret'.t # "normal"]_vars

\* A cleanup running during the tracker's disposal called using, and that call
\* has raised after rolling its record back.
C17_Witness ==
  /\ callStack # <<>>
  /\ Top.op = "cleanup"
  /\ Rest # <<>>
  /\ Rest[Len(Rest)].op = "dispose"
  /\ lastUsing.caller = "cleanup"
  /\ ret.t = "throw"
  /\ AlreadyDisposed(lastUsing.n) \in Reach(ret.err[1])
  /\ Cardinality(Invocations(lastUsing.n)) = 1

\* C18: when a call of using on a disposed tracker returns and the rollback
\* cleanup of its record failed with E_disp (by raising, or by returning a
\* promise that rejects), the error the call raises is its AlreadyDisposed
\* error, and E_disp is the cause of that error.
C18_RollbackFailureAttached ==
  [][(TopIs("using", "rollback") /\ callStack' = Rest)
       => \A j \in Invocations(Top.err[1].id) :
            log[j].result.err # <<>> =>
              /\ ret'.t = "throw"
              /\ Ident(ret'.err[1]) = AlreadyDisposed(Top.err[1].id)
              /\ ret'.err[1].cause # <<>>
              /\ Ident(ret'.err[1].cause[1]) = Ident(log[j].result.err[1])]_vars

\* C19: a call using(value) on a pending tracker with a value no recognition
\* rule accepts returns in that step by raising the TypeError, and leaves the
\* stack, the state and the cleanups invoked as they were.
C19_InvalidUsingNoEffect ==
  [][(UsingStep /\ OnTracker(lastUsing') /\ ~Recognisable(lastUsing')
        /\ state = "pending")
       => /\ callStack' = callStack
          /\ ret'.t = "throw"
          /\ ret'.err = <<TypeError("Invalid disposable", lastUsing'.n)>>
          /\ resourceStack' = resourceStack
          /\ state' = state
          /\ added' = added
          /\ log' = log
          /\ parked' = parked]_vars

\* using raised the TypeError on a pending tracker that holds a record.
C19_Witness ==
  /\ Completed("using")
  /\ ret.t = "throw"
  /\ ret.err[1].origin = "Invalid disposable"
  /\ state = "pending"
  /\ Len(resourceStack) = 1
  /\ log = <<>>

\* C20: a call using(value[, onDispose]) on a pending tracker with something the
\* recognition rules accept returns value in that step, having pushed one record
\* for it on top of the stack and changed nothing else: the records beneath,
\* the state, the cleanups invoked.
C20_UsingPushesOne ==
  [][(UsingStep /\ OnTracker(lastUsing') /\ Recognisable(lastUsing')
        /\ state = "pending")
       => /\ callStack' = callStack
          /\ ret'.t = "normal"
          /\ ret'.val = <<UsingValue(lastUsing')>>
          /\ Len(resourceStack') = Len(resourceStack) + 1
          /\ SubSeq(resourceStack', 1, Len(resourceStack)) = resourceStack
          /\ resourceStack'[Len(resourceStack')].rid = lastUsing'.n
          /\ state' = state
          /\ log' = log
          /\ parked' = parked]_vars

\* using returned its value, having pushed a second record on a pending tracker.
C20_Witness ==
  /\ Completed("using")
  /\ ret.t = "normal"
  /\ ret.val = <<UsingValue(lastUsing)>>
  /\ state = "pending"
  /\ Len(resourceStack) = 2
  /\ resourceStack[2].rid = lastUsing.n
  /\ log = <<>>

\* What recognition is to give for a value offered with a receiver: "async" or
\* "sync" with the value's own method, "callback" for the value called with the
\* receiver as this, "refused".
Recognised(value) ==
  IF variant = "async"
  THEN IF value.asyncTag = "function" THEN "async"
       ELSE IF value.asyncTag # "undefined" THEN "refused"
       ELSE IF value.dispose THEN "sync"
       ELSE IF value.callable THEN "callback"
       ELSE "refused"
  ELSE IF value.dispose THEN "sync"
       ELSE IF value.callable THEN "callback"
       ELSE "refused"

\* The record of that answer for value number n offered with receiver number n.
RecognisedRecord(value, answer) ==
  [rid |-> value.id,
   resourceValue |-> "value",
   hint |-> IF answer = "sync" \/ variant = "sync" THEN "sync" ELSE "async",
   disposeMethod |->
     [of |-> value.role,
      via |-> CASE answer = "async" -> "symbolAsyncDispose"
                [] answer = "sync" -> "symbolDispose"
                [] OTHER -> "call"]]

\* What a call of using hands to recognition: onDispose when given, else the
\* value.
Offered(call) ==
  IF call.onDispose THEN Value(call.n, "onDispose", FALSE, "undefined", TRUE)
  ELSE UsingValue(call)

\* C21: a call of using on a pending tracker pushes exactly the record that the
\* recognition table gives for what it offers (async tag a function: async
\* record of the value; async tag defined otherwise: refused; else sync tag a
\* function: sync record of the value; else callable: callback record, of async
\* mode, with the supplied receiver; else refused), and a refused value is
\* answered by the "Invalid disposable" TypeError with nothing pushed; the sync
\* tracker decides by the sync tag and callability alone, and only makes
\* sync-mode records.
C21_RecognitionTable ==
  [][(UsingStep /\ OnTracker(lastUsing') /\ state = "pending") =>
       LET call == lastUsing'
           answer == Recognised(Offered(call))
       IN IF answer = "refused"
          THEN /\ resourceStack' = resourceStack
               /\ ret'.t = "throw"
               /\ ret'.err[1] = TypeError("Invalid disposable", call.n)
          ELSE /\ resourceStack' =
                    Append(resourceStack,
                           RecognisedRecord(Offered(call), answer))
               /\ ret'.t = "normal"
               /\ (variant = "sync" =>
                     \A i \in 1..Len(resourceStack') :
                       resourceStack'[i].hint = "sync")]_vars

\* Reached: an async tracker has refused a value whose async tag is defined but
\* not a function although its sync tag is a function and it is callable, and
\* holds the sync record of a value that has both tags absent or usable.
C21_Witness ==
  /\ variant = "async"
  /\ state = "pending"
  /\ lastUsing.kind = "badAsyncDisposableFunction"
  /\ ~lastUsing.onDispose
  /\ ret.t = "throw"
  /\ \E i \in 1..Len(resourceStack) : resourceStack[i].hint = "sync"

\* The invocation has completed: the cleanup returned or raised, or the promise
\* it returned has settled.
Settled(x) == x.result.t \in {"normal", "throw"}

\* C22: in the async variant every cleanup the disposal has invoked, but the
\* latest, has completed and the promise it returned, if any, has settled: the
\* cleanup of a record is invoked only when the one before it is no longer in
\* flight, and while a disposal waits for a cleanup's promise that cleanup is
\* the latest one invoked and the records beneath it stay on the stack.
C22_AsyncSerialised ==
  variant = "async" =>
    /\ \A i \in 1..(Len(Drained) - 1) : Settled(Drained[i])
    /\ \A c \in parked :
         (c.wait # 0 /\ c.wait \in {added[i].rid : i \in 1..Len(added)}) =>
            /\ Drained[Len(Drained)].record.rid = c.wait
            /\ Len(resourceStack) + Len(Drained) = Len(added)

\* The disposal waits for the promise of the cleanup of the top record while a
\* record is beneath it.
C22_Witness ==
  /\ variant = "async"
  /\ callStack = <<>>
  /\ Len(added) = 2
  /\ Len(Drained) = 1
  /\ Len(resourceStack) = 1
  /\ \E c \in parked : c.wait = Drained[1].record.rid

\* C23: a tracker's state, once disposed, stays disposed (it is pending or
\* disposed from its creation on); every cleanup is invoked in a state that is
\* already disposed, so it runs with the tracker disposed; and from the moment
\* the disposal that flipped the state has finished the stack is empty.
C23_StateOneWay ==
  [][/\ state = "disposed" => state' = "disposed"
     /\ state = "pending" => state' \in {"pending", "disposed"}
     /\ Len(log') > Len(log) => state = "disposed"
     /\ (callStack' # <<>> /\ callStack'[Len(callStack')].op = "cleanup")
          => state' = "disposed"
     /\ disposal'.finished => (state' = "disposed" /\ resourceStack' = <<>>)]_vars

\* The disposal of a tracker has finished; the cleanup of its record called
\* using on the tracker while the disposal was running.
C23_Witness ==
  /\ disposal.finished
  /\ disposal.n = 1
  /\ state = "disposed"
  /\ resourceStack = <<>>
  /\ lastUsing.caller = "cleanup"
  /\ Len(Drained) = 1

\* The script has been handed the completion of its latest call on the iterator.
PassDone == callStack = <<>> /\ pass.op # "none" /\ ret.op = pass.op

\* That call is running or waits for a promise.
PassRunning ==
  \/ callStack # <<>> /\ callStack[1].op = pass.op
  \/ \E c \in parked : ~c.frames[1].detached /\ c.frames[1].op = pass.op

C25_ClosedIsInert ==
  [][(/\ created = "iterator"
      /\ pass'.before = "closed"
      /\ pass'.op \in {"next", "return"}
      /\ pass'.n # pass.n \/ PassRunning)
       => /\ Len(log') = Len(log)
          /\ ret'.t # "throw"
          /\ PassDone' => (ret'.t = "normal" /\ ret'.done)]_vars

\* The call that closed the iterator raised what the disposal raised; a later
\* next() found the tracker still held and reported done.
C25_Witness ==
  /\ created = "iterator"
  /\ ~exposed
  /\ disposal.result.t = "throw"
  /\ pass.before = "closed"
  /\ pass.op = "next"
  /\ PassDone
  /\ ret.done
  /\ res = "undefined"

\* A frame of `op` is on the stack or in a parked chain.
Running(op) ==
  \/ \E i \in 1..Len(callStack) : callStack[i].op = op
  \/ \E c \in parked : \E i \in 1..Len(c.frames) : c.frames[i].op = op

\* The records from pushed.
FromAdded == SelectSeq(added, LAMBDA a : a.via = "from")

\* C26: AsyncDisposable.from hands its completion to the caller only when its
\* population loop has ended (no record is pushed by from afterwards); and when
\* that completion is a rejection the tracker is disposed, its stack is empty,
\* the cleanup of every record that had been pushed has been invoked once and
\* has settled, and no part of the disposal is still waiting.
C26_FromSettlesAfterRollback ==
  [][(variant = "async" /\ created' = "from") =>
       /\ (created = "from" /\ ~Running("from")) => FromAdded' = FromAdded
       /\ (Completed("from")' /\ ret'.t = "throw") =>
            /\ state' = "disposed"
            /\ disposal'.finished
            /\ resourceStack' = <<>>
            /\ \A i \in 1..Len(added') :
                 \A j \in 1..Len(log') :
                   log'[j].record.rid = added'[i].rid => Settled(log'[j])
            /\ DrainedIds' = Reverse(AddedIds')
            /\ \A c \in parked' : c.frames[1].detached]_vars

\* from has rejected after the promise of the cleanup of the record it had
\* pushed settled.
C26_Witness ==
  /\ variant = "async"
  /\ Completed("from")
  /\ ret.t = "throw"
  /\ Len(added) = 1
  /\ Len(Drained) = 1
  /\ Drained[1].record.hint = "async"
  /\ Settled(Drained[1])
  /\ unhandled = {}

\* C27: the constructor of the async variant is never suspended; when an
\* argument failed recognition its completion is a throw of the AggregateError
\* of the recognition errors, from which no error of a cleanup can be reached,
\* made when the tracker is disposed and the cleanup of the last record pushed
\* has been invoked; the cleanups are invoked in reverse order of the pushes;
\* and what the rollback disposal raises is a rejection nobody handles.
C27_ConstructorThrowsSync ==
  (variant = "async" /\ created = "new") =>
    /\ \A c \in parked : \A i \in 1..Len(c.frames) : c.frames[i].op # "new"
    /\ IsPrefix(DrainedIds, Reverse(AddedIds))
    /\ (Completed("new") /\ \E e \in raised : e[1] = "Invalid disposable") =>
         /\ ret.t = "throw"
         /\ ret.err[1].origin = "AggregateError"
         /\ \A i \in 1..Len(ret.err[1].errors) :
              ret.err[1].errors[i].origin = "Invalid disposable"
         /\ \A e \in Reach(ret.err[1]) : e[1] # "cleanup"
         /\ state = "disposed"
         /\ disposal.started
         /\ added # <<>> => Drained # <<>>
    /\ (~exposed /\ disposal.finished) =>
         /\ DrainedIds = Reverse(AddedIds)
         /\ disposal.result.t = "throw" => disposal.result.err[1] \in unhandled

\* The constructor has thrown while the promise of the rollback cleanup of the
\* record it had pushed is pending.
C27_Witness ==
  /\ variant = "async"
  /\ Completed("new")
  /\ ret.t = "throw"
  /\ Len(added) = 1
  /\ resourceStack = <<>>
  /\ \E c \in parked : c.wait = added[1].rid

\* C29: every cleanup invocation of a record made of a bare function that was
\* tracked for itself (the function is the value given to using, or the item of
\* a source with the default mapFn) has undefined as receiver.
C29_BareFunctionNoReceiver ==
  \A j \in 1..Len(log) :
    log[j].record.disposeMethod = [of |-> "value", via |-> "call"]
      => log[j].record.resourceValue = "undefined"

\* C30: while a tracker's state is disposed its stack only shrinks; the drain
\* loop of the disposal that found N records on the stack never invokes more
\* than N cleanups, has invoked exactly N when it finishes, and does finish,
\* whatever calls of using and dispose the cleanups make on the tracker (the
\* cleanup of a record that such a using rolls back is invoked by using, not
\* by the loop).
C30_DrainTerminates ==
  /\ [][state = "disposed" => IsPrefix(resourceStack', resourceStack)]_vars
  /\ [](Len(Drained) <= disposal.n)
  /\ [](disposal.finished => (Len(Drained) = disposal.n /\ resourceStack = <<>>))
  /\ (disposal.started ~> disposal.finished)

\* The disposal of a tracker of one record has finished with one invocation by
\* the drain loop; the cleanup had called using on the tracker, and the record
\* of that call was rolled back.
C30_Witness ==
  /\ disposal.finished
  /\ disposal.n = 1
  /\ Len(Drained) = 1
  /\ Len(log) = 2
  /\ lastUsing.caller = "cleanup"
  /\ resourceStack = <<>>

\* The invocations of the cleanups of the inner tracker's records, in order.
InnerDrained ==
  SelectSeq(log, LAMBDA x : \E i \in 1..Len(inner.added) :
                             inner.added[i] = x.record.rid)

InnerDrainedIds == [i \in 1..Len(InnerDrained) |-> InnerDrained[i].record.rid]

\* The place of record rid among the pushes on the outer tracker.
AddedAt(rid) == CHOOSE i \in 1..Len(added) : added[i].rid = rid

\* The invocations of records pushed on the outer tracker before the inner one.
Beneath ==
  {j \in 1..Len(log) :
     \E i \in 1..Len(added) :
       /\ added[i].rid = log[j].record.rid
       /\ i < AddedAt(inner.rid)}

\* C28: when a tracker holds another tracker as a record, the outer tracker's
\* cleanups are invoked in reverse order of the pushes, the inner tracker's
\* dispose being the cleanup at the inner tracker's place; the inner tracker's
\* cleanups are invoked after that dispose was called, each at most once, in
\* reverse order of their addition; and when the cleanup of a record beneath
\* the inner tracker is invoked, every one of the inner tracker's cleanups has
\* been invoked and has settled, and so has the inner tracker's dispose.
C28_NestedTracker ==
  inner.rid # 0 =>
    /\ IsPrefix(DrainedIds, Reverse(AddedIds))
    /\ IsPrefix(InnerDrainedIds, Reverse(inner.added))
    /\ \A j \in 1..Len(log) :
         (\E i \in 1..Len(inner.added) : inner.added[i] = log[j].record.rid)
           => \E h \in 1..(j - 1) : log[h].record.rid = inner.rid
    /\ \A j \in Beneath :
         /\ \E h \in 1..(j - 1) :
              log[h].record.rid = inner.rid /\ Settled(log[h])
         /\ \A i \in 1..Len(inner.added) :
              \E h \in 1..(j - 1) :
                log[h].record.rid = inner.added[i] /\ Settled(log[h])
         /\ inner.resourceStack = <<>>

\* A tracker of two records was pushed on top of a record of the outer
\* tracker; the outer disposal has finished, a cleanup of the inner tracker
\* having raised.
C28_Witness ==
  /\ inner.rid = 2
  /\ Len(inner.added) = 2
  /\ Len(added) = 2
  /\ disposal.finished
  /\ Len(log) = 4
  /\ log[1].record.rid = inner.rid
  /\ log[2].result.t = "throw"
  /\ log[4].record.rid = added[1].rid

\* Every record pushed on the tracker has had its cleanup invoked, every such
\* invocation has completed (a promise it returned has settled), and nothing is
\* left on the stack.
AllDisposed ==
  /\ resourceStack = <<>>
  /\ \A i \in 1..Len(added) : \E j \in 1..Len(Drained) :
       Drained[j].record.rid = added[i].rid
  /\ \A j \in 1..Len(Drained) : Settled(Drained[j])

\* The script has been handed the fulfilment of a request to dispose the
\* tracker: of [symbolAsyncDispose](), of the iterator's return(), or of a
\* next() that reports done.
DisposalResolved ==
  /\ callStack = <<>>
  /\ ret.t = "normal"
  /\ \/ ret.op \in {"dispose", "return"}
     \/ ret.op = "next" /\ ret.done

\* C31 as stated: a fulfilled request to dispose an async tracker, the first or
\* one made while the first was still awaiting a cleanup, means that every
\* cleanup of the tracker has completed.
C31_ResolvedMeansDisposed ==
  (variant = "async" /\ DisposalResolved) => AllDisposed

\* C31 as amended: the disposal that flipped the state finishes only when every
\* cleanup of the tracker has completed and the stack is empty, and the script
\* is handed the fulfilment of a request before that only if the request was
\* made after the flip (it returned early without invoking anything).
C31_FlippingDisposalWaits ==
  variant = "async" =>
    /\ disposal.finished => AllDisposed
    /\ (DisposalResolved /\ ~AllDisposed) =>
         (disposal.started /\ ~disposal.finished /\ disposal.early)

\* A second request was fulfilled while the first awaited the promise of a
\* cleanup, and the first has then finished.
C31_Witness ==
  /\ variant = "async"
  /\ disposal.early
  /\ disposal.finished
  /\ Len(added) = 2
  /\ \A j \in 1..Len(Drained) : Drained[j].record.hint = "async"
  /\ AllDisposed
  /\ callStack = <<>>
  /\ parked = {}

\* C32: on an async streaming iterator whose next() is called while earlier
\* calls are pending, the cleanup of a recognised record is invoked at most
\* once; a record is no longer pending only when its cleanup has been invoked
\* (it is never overwritten undisposed); and once the iterator is closed, or
\* exhausted with the consumer's latest completed call reporting done, and no
\* call is pending, the cleanup of every recognised record has been invoked
\* exactly once and has settled.
C32_NoRecordLost ==
  (variant = "async" /\ created = "stream") =>
    /\ \A i \in 1..Len(stream.recognised) :
         Cardinality(Invocations(stream.recognised[i])) <= 1
    /\ \A i \in 1..Len(stream.yielded) :
         stream.yielded[i] # stream.pendingRecord.rid =>
           Invocations(stream.yielded[i]) # {}
    /\ ( /\ callStack = <<>>
         /\ parked = {}
         /\ \/ stream.closed
            \/ stream.sourceDone /\ ret.op = "wrapped.next" /\ ret.done ) =>
         \A i \in 1..Len(stream.recognised) : Disposed(stream.recognised[i])

\* A pull failed for a reason other than the source's next: mapFn or
\* recognition failed for the pulled item, or the disposal of the previous
\* item's resource failed.
FailedPull ==
  /\ Completed("wrapped.next")
  /\ \E e \in raised : e[1] \in {"mapFn", "Invalid disposable", "cleanup"}

\* C33: the async streaming iterator does with its source and its closed flag
\* what the sync one does, stated in the variant-independent form the claim
\* gives it: in either variant, when a pull has failed because mapFn or
\* recognition failed for the item or because the disposal of the previous
\* item's resource failed, the iterator is closed and the source's return, if
\* it has one, has been invoked; and the source is not asked while the
\* iterator is closed.
C33_AsyncClosesLikeSync ==
  /\ FailedPull => (stream.closed /\ (stream.hasReturn => stream.returns >= 1))
  /\ stream.closed => ~InSource("next")

\* The errors mapFn raised during the script's current call (at most one).
MapFnErrors == {e \in raised : e[1] = "mapFn"}

\* C34: once mapFn has raised during from, from takes no further item; and
\* when from has completed it has raised, the stack is empty, the cleanups of
\* the records that had been added were invoked in reverse order of addition,
\* and the error raised is mapFn's error itself if nothing else was raised, and
\* otherwise an AggregateError whose cause is mapFn's error.
C34_MapFnErrorRollsBack ==
  (created = "from" /\ MapFnErrors # {}) =>
    /\ ~IsFrom("iterate")
    /\ Completed("from") =>
         /\ ret.t = "throw"
         /\ resourceStack = <<>>
         /\ DrainedIds = Reverse(AddedIds)
         /\ \A m \in MapFnErrors :
              IF raised = {m}
              THEN ret.err[1] = Err(m[1], m[2], m[3])
              ELSE /\ ret.err[1].origin = "AggregateError"
                   /\ ret.err[1].cause = <<Err(m[1], m[2], m[3])>>

\* C35: when from has completed and its source or mapFn raised during it,
\* whatever the raised value (an object, or a falsy primitive), from has
\* raised, the tracker was not handed to the caller, and the cleanup of every
\* record that had been added has been invoked and nothing is left on the
\* stack.
C35_FalsyErrorStillRaises ==
  (created = "from" /\ Completed("from")
     /\ \E e \in raised : e[1] \in {"source", "mapFn"}) =>
    /\ ret.t = "throw"
    /\ ~exposed
    /\ resourceStack = <<>>
    /\ \A i \in 1..Len(added) : Invocations(added[i].rid) # {}

\* C36 as stated: the source's return method is invoked at most once over the
\* lifetime of a streaming iterator.
C36_SourceReturnAtMostOnce == stream.returns <= 1

\* C36 as amended: a step invokes the source's return at most once, and it does
\* so either on behalf of a return() or throw() call of the consumer, each of
\* which forwards to the source once, or on behalf of a next() call that finds
\* the iterator open and closes it: the next() calls together invoke it at most
\* once.
C36_ReturnOncePerClosingCall ==
  [][stream'.returns # stream.returns =>
       /\ stream'.returns = stream.returns + 1
       /\ callStack # <<>>
       /\ \/ Top.op \in {"wrapped.return", "wrapped.throw"} /\ Top.pc = "disposed"
          \/ /\ \E i \in 1..Len(callStack) : callStack[i].op = "wrapped.next"
             /\ ~stream.closed
             /\ stream'.closed]_vars

\* The first call, a next(), failed on recognition and closed the source; the
\* second call, a return(), was forwarded to the source as well.
C36_Witness ==
  /\ Completed("wrapped.return")
  /\ stream.calls = 2
  /\ stream.items = 1
  /\ stream.yielded = <<>>
  /\ stream.returns = 2

\* The record of a call of using is on the stack.
OnStack(rid) == \E j \in 1..Len(resourceStack) : resourceStack[j].rid = rid

\* C37: in the earlier variant, a using of a recognised value by the script
\* returns the value normally, also once the disposal has finished; a record
\* pushed after the disposal finished stays on the stack and its cleanup is
\* never invoked, whatever is called afterwards; a record pushed while the
\* disposal was draining has had its cleanup invoked, once, by the time that
\* disposal has finished.
C37_EarlierUsingAfterDisposal ==
  /\ (Completed("using") /\ lastUsing.kind # "invalid") =>
       (ret.t = "normal" /\ \E i \in 1..Len(added) : added[i].rid = lastUsing.n)
  /\ \A i \in 1..Len(added) :
       /\ added[i].during = "drained" =>
            (OnStack(added[i].rid) /\ Invocations(added[i].rid) = {})
       /\ (added[i].during = "draining" /\ disposal.finished) =>
            (~OnStack(added[i].rid) /\ Cardinality(Invocations(added[i].rid)) = 1)

\* A record was pushed and disposed; using was then called on the disposed
\* tracker, and a further request to dispose it has returned.
C37_Witness ==
  /\ callStack = <<>>
  /\ parked = {}
  /\ Len(added) = 2
  /\ added[1].during = "pending"
  /\ added[2].during = "drained"
  /\ disposal.later = "returned"
  /\ ret.t = "normal"
  /\ ret.op \in {"dispose", "return"}
  /\ Len(log) = 1
  /\ Len(resourceStack) = 1

====
